---- MODULE Spec2Model ----
(***************************************************************************)
(* FPCS Memory Blocks (src/js/memory-blocks.js): core memory blocks, the   *)
(* recall buffer with auto-summarization, the session summaries, the       *)
(* session handling of _load, and the context header, over a localStorage  *)
(* that survives page loads.                                               *)
(*                                                                         *)
(* Texts are sequences of characters.  A record keeps the fields the       *)
(* properties below read; description / createdAt of a block and           *)
(* timestamp / page / botName / tokens of a message are not represented.   *)
(* Time is in milliseconds, as Date.now().                                 *)
(***************************************************************************)
EXTENDS Integers, Sequences, FiniteSets, TLC

\* ---------------------------------------------------------------- CONFIG
SUMMARIZE_THRESHOLD == 80
SUMMARIZE_KEEP_RECENT == 24
MAX_SUMMARIES == 20
DEFAULT_BLOCK_LIMIT == 2000
sessionTimeout == 30 * 60 * 1000

\* ---------------------------------------------------------------- BOUNDS
MaxCalls == 3       \* add / clear / Summaries.add / reset calls and page loads per behaviour
MaxTicks == 1       \* clock advances per behaviour
MaxDefines == 2     \* CoreMemory.define calls per behaviour
MaxEdits == 1       \* CoreMemory.set / append / replace calls per behaviour
MaxStr == 2         \* length of a text passed to a core block call
MaxLimit == 2       \* largest explicit limit passed to define
MaxRecent == 3      \* largest count passed to recall.recent
MaxLearns == 1      \* Learning.processUserMessage calls per behaviour
MaxClauses == 2     \* clauses in a message given to processUserMessage
MaxFaults == 1      \* changes of what localStorage refuses per behaviour

FiveMinutes == 5 * 60 * 1000
TickSteps == {FiveMinutes, sessionTimeout}
StartTime == 1000 * sessionTimeout

Chars == {"a", "b"}
Texts == UNION {[1..k -> Chars] : k \in 0..MaxStr}
\* the new texts given to replace: of one character at most, and two that hold a $
ReplaceTexts == {<<>>, <<"a">>, <<"b">>, <<"$", "$">>, <<"$", "&">>}
DefaultLabels == {"persona", "user_info", "task_state", "project_facts"}
Labels == DefaultLabels \cup {"x"}
Roles == {"user", "bot"}
Contents == {"tax", "hello"}
PageName == "Dashboard"
AddInputs == {[role |-> "user", content |-> "tax"], [role |-> "bot", content |-> "hello"]}

\* ------------------------------------------------------ JS array / string
Min(a, b) == IF a < b THEN a ELSE b
Max(a, b) == IF a > b THEN a ELSE b

\* Array.prototype.slice(from) / String.prototype.substring(from), 0-based
sliceFrom(s, from) == SubSeq(s, Max(from, 0) + 1, Len(s))
\* slice(0, to) / substring(0, to)
sliceTo(s, to) == SubSeq(s, 1, Min(Max(to, 0), Len(s)))
\* slice(-n) for n > 0
sliceLast(s, n) == sliceFrom(s, Len(s) - n)

\* String.prototype.indexOf: 0-based index of the first occurrence, or -1
indexOf(s, sub) ==
  LET hits == {i \in 0..(Len(s) - Len(sub)) : SubSeq(s, i + 1, i + Len(sub)) = sub}
  IN IF hits = {} THEN -1 ELSE CHOOSE i \in hits : \A j \in hits : i <= j

RECURSIVE getSubstitution(_, _, _, _)
\* What String.prototype.replace inserts for newStr when the pattern is a string:
\* $$ is one $, $& the matched text, $` the text before the match, $' the text
\* after it; any other character, a $ before another one included, stands for itself
getSubstitution(matched, before, after, newStr) ==
  IF newStr = <<>> THEN <<>>
  ELSE IF newStr[1] = "$" /\ Len(newStr) > 1 /\ newStr[2] \in {"$", "&", "`", "'"}
  THEN (CASE newStr[2] = "$" -> <<"$">>
          [] newStr[2] = "&" -> matched
          [] newStr[2] = "`" -> before
          [] newStr[2] = "'" -> after)
       \o getSubstitution(matched, before, after, SubSeq(newStr, 3, Len(newStr)))
  ELSE <<newStr[1]>> \o getSubstitution(matched, before, after, Tail(newStr))

\* String.prototype.replace(oldStr, newStr) with a string pattern: first occurrence
replaceFirst(s, oldStr, newStr) ==
  LET i == indexOf(s, oldStr)
  IN IF i = -1 THEN s
     ELSE sliceTo(s, i)
          \o getSubstitution(oldStr, sliceTo(s, i), sliceFrom(s, i + Len(oldStr)), newStr)
          \o sliceFrom(s, i + Len(oldStr))

\* F applied to the value of v: the statements of a handler run one after the
\* other, each on the state the one before left
Then(v, F(_)) == CHOOSE r \in {F(x) : x \in {v}} : TRUE

\* ---------------------------------------------------------------- STATE
VARIABLES
  initialized,    \* _initialized
  config,         \* _config
  coreBlocks,     \* _coreBlocks: label -> block
  recall,         \* _recall: [sessionId, messages, startedAt]
  summaries,      \* _summaries
  localStorage,   \* the browser's localStorage, keys of this user
  now,            \* Date.now()
  nextSid,        \* the next value _generateSessionId() returns
  monologue,      \* InnerMonologue._log
  events,         \* events emitted by the last call, each with what a listener sees
  op,             \* the last call made
  ret,            \* what it returned
  used,           \* calls made so far, per budget
  hist            \* history: turns appended and dropped, what a page load left,
                  \* the successful edits of each block, the last call on a block

vars == <<initialized, config, coreBlocks, recall, summaries, localStorage, now,
          nextSid, monologue, events, op, ret, used, hist>>

\* sessionId null is 0; generated ids are positive
NoSession == 0
NoBlocks == [l \in {} |-> 0]

\* The in-memory stores, the storage and the events emitted so far, threaded
\* through the calls of one handler
Mem == [core |-> coreBlocks, recall |-> recall, sums |-> summaries,
        ls |-> localStorage, log |-> monologue, ev |-> <<>>, threw |-> FALSE]

\* ---------------------------------------------------------------- STORAGE
\* A key holds <<>> (absent: getItem gives null) or <<value>>.  What is stored is
\* JSON.stringify of numbers, strings, booleans, arrays and plain objects, which
\* JSON.parse gives back unchanged, as a copy.
\* The browser's side of localStorage: ls.denied, the keys whose setItem and
\* removeItem throw (quota, storage disabled); ls.unreadable, the keys whose
\* getItem throws; ls.shape, per key, whether its text is JSON of the shape the
\* module writes ("json"), text that JSON.parse rejects ("garbled"), or the JSON
\* string '"x"' ("text").  "recall" stands for the keys 'recall_' + sessionId.
\* m.threw: a statement of the handler threw and nothing caught it; the handler
\* ended there.
Keys == {"core_blocks", "summaries", "last_session_id", "last_session_time", "recall"}
\* the keys of the snapshots of the three stores
StoreKeys == {"core_blocks", "summaries", "recall"}

\* what JSON.parse gives for the text '"x"': a string, of length 1
TextValue == [length |-> 1]
\* a string has the property length and none of the properties the module reads
isPrimitive(v) == "length" \in DOMAIN v
\* Array.isArray of what get gives for the key
isArrayStored(ls, key) == ls.shape[key] = "json"

\* get: a getItem or a JSON.parse that throws is caught and gives null
StorageGet(ls, key) ==
  IF key \in ls.unreadable \/ ls.shape[key] = "garbled" THEN <<>>
  ELSE IF ls.shape[key] = "text" THEN <<TextValue>>
  ELSE ls[key]
\* set, remove: a setItem or removeItem that throws is caught
StorageSet(ls, key, data) ==
  IF key \in ls.denied THEN ls
  ELSE [ls EXCEPT ![key] = <<data>>, !.shape[key] = "json"]
StorageRemove(ls, key) ==
  IF key \in ls.denied THEN ls
  ELSE [ls EXCEPT ![key] = <<>>, !.shape[key] = "json"]
\* the keys 'recall_' + sessionId
StorageGetRecall(ls, sid) ==
  IF "recall" \in ls.unreadable \/ ls.shape["recall"] = "garbled" THEN <<>>
  ELSE IF ls.shape["recall"] = "text" THEN <<TextValue>>
  ELSE IF sid \in DOMAIN ls.recall THEN <<ls.recall[sid]>> ELSE <<>>
StorageSetRecall(ls, sid, data) ==
  IF "recall" \in ls.denied THEN ls
  ELSE [ls EXCEPT !.recall = [s \in DOMAIN ls.recall \cup {sid} |->
                                 IF s = sid THEN data ELSE ls.recall[s]],
                  !.shape["recall"] = "json"]
StorageRemoveRecall(ls, sid) ==
  IF "recall" \in ls.denied THEN ls
  ELSE [ls EXCEPT !.recall = [s \in DOMAIN ls.recall \ {sid} |-> ls.recall[s]],
                  !.shape["recall"] = "json"]

emit(m, name) ==
  [m EXCEPT !.ev = Append(@, [name |-> name,
                              recallCount |-> Len(m.recall.messages),
                              summaryCount |-> Len(m.sums),
                              messages |-> m.recall.messages,
                              summaries |-> m.sums,
                              sessionId |-> m.recall.sessionId])]

\* a save of the buffer that leaves last_session_time as it is
saveSessionIndex_off(m, t) == m
saveSessionIndex(m, t) == [m EXCEPT !.ls = StorageSet(@, "last_session_time", t)]

\* a save that, when the write is refused, takes the store back from storage
save_readBack(m, type, t) ==
  CASE type = "core" ->
         IF "core_blocks" \in m.ls.denied /\ m.ls.core_blocks # <<>>
         THEN [m EXCEPT !.core = m.ls.core_blocks[1]]
         ELSE [m EXCEPT !.ls = StorageSet(@, "core_blocks", m.core)]
    [] type = "recall" ->
         saveSessionIndex(
           [m EXCEPT !.ls = StorageSetRecall(@, m.recall.sessionId,
                              [sessionId |-> m.recall.sessionId,
                               messages |-> m.recall.messages,
                               startedAt |-> m.recall.startedAt])], t)
    [] type = "summaries" -> [m EXCEPT !.ls = StorageSet(@, "summaries", m.sums)]
save(m, type, t) ==
  CASE type = "core" -> [m EXCEPT !.ls = StorageSet(@, "core_blocks", m.core)]
    [] type = "recall" ->
         saveSessionIndex(
           [m EXCEPT !.ls = StorageSetRecall(@, m.recall.sessionId,
                              [sessionId |-> m.recall.sessionId,
                               messages |-> m.recall.messages,
                               startedAt |-> m.recall.startedAt])], t)
    [] type = "summaries" -> [m EXCEPT !.ls = StorageSet(@, "summaries", m.sums)]

\* ---------------------------------------------------------------- CORE MEMORY
putBlock(core, label, blk) ==
  [l \in DOMAIN core \cup {label} |-> IF l = label THEN blk ELSE core[l]]

\* opts.limit || DEFAULT_BLOCK_LIMIT: an absent or 0 limit gives the default.
\* The module is in strict mode (line 26): _coreBlocks[label] = {...} on a string
\* throws a TypeError.
CoreDefine(m, label, value, limit, readOnly, t) ==
  IF isPrimitive(m.core) THEN [m EXCEPT !.threw = TRUE] ELSE
  LET blk == [label |-> label,
              value |-> value,
              limit |-> IF limit = 0 THEN DEFAULT_BLOCK_LIMIT ELSE limit,
              readOnly |-> readOnly,
              lastModified |-> t,
              editCount |-> 0]
  IN Then([m EXCEPT !.core = putBlock(@, label, blk)], LAMBDA m1 :
     Then(save(m1, "core", t), LAMBDA m2 :
     emit(m2, "core:defined")))

CoreGet(m, label) == IF label \in DOMAIN m.core THEN <<m.core[label].value>> ELSE <<>>

\* a commit that leaves editCount alone
commitBlock_uncounted(m, label, newVal, t, event) ==
  Then([m EXCEPT !.core[label].value = newVal,
                 !.core[label].lastModified = t], LAMBDA m1 :
  Then(save(m1, "core", t), LAMBDA m2 :
  [m |-> emit(m2, event), ret |-> TRUE]))

\* the three mutators give [m, ret]
commitBlock(m, label, newVal, t, event) ==
  Then([m EXCEPT !.core[label].value = newVal,
                 !.core[label].lastModified = t,
                 !.core[label].editCount = @ + 1], LAMBDA m1 :
  Then(save(m1, "core", t), LAMBDA m2 :
  [m |-> emit(m2, event), ret |-> TRUE]))

\* a set without the read-only test
CoreSet_anyBlock(m, label, value, t) ==
  IF label \notin DOMAIN m.core THEN [m |-> m, ret |-> FALSE]
  ELSE commitBlock(m, label, sliceTo(value, m.core[label].limit), t, "core:changed")
\* a set that keeps the end of an over-long value
CoreSet_tail(m, label, value, t) ==
  IF label \notin DOMAIN m.core THEN [m |-> m, ret |-> FALSE]
  ELSE IF m.core[label].readOnly THEN [m |-> m, ret |-> FALSE]
  ELSE commitBlock(m, label, sliceLast(value, Min(Len(value), m.core[label].limit)),
                   t, "core:changed")
CoreSet(m, label, value, t) ==
  IF label \notin DOMAIN m.core THEN [m |-> m, ret |-> FALSE]
  ELSE IF m.core[label].readOnly THEN [m |-> m, ret |-> FALSE]
  ELSE LET limit == m.core[label].limit
           v == IF Len(value) > limit THEN sliceTo(value, limit) ELSE value
       IN commitBlock(m, label, v, t, "core:changed")

\* an append that cuts the end of the joined text
CoreAppend_head(m, label, content, t) ==
  IF label \notin DOMAIN m.core THEN [m |-> m, ret |-> FALSE]
  ELSE IF m.core[label].readOnly THEN [m |-> m, ret |-> FALSE]
  ELSE commitBlock(m, label, sliceTo(m.core[label].value \o content, m.core[label].limit),
                   t, "core:appended")
CoreAppend(m, label, content, t) ==
  IF label \notin DOMAIN m.core THEN [m |-> m, ret |-> FALSE]
  ELSE IF m.core[label].readOnly THEN [m |-> m, ret |-> FALSE]
  ELSE LET limit == m.core[label].limit
           newVal == m.core[label].value \o content
           v == IF Len(newVal) > limit
                THEN sliceFrom(newVal, Len(newVal) - limit) ELSE newVal
       IN commitBlock(m, label, v, t, "core:appended")

\* a replace without the indexOf test
CoreReplace_nocheck(m, label, oldStr, newStr, t) ==
  IF label \notin DOMAIN m.core THEN [m |-> m, ret |-> FALSE]
  ELSE IF m.core[label].readOnly THEN [m |-> m, ret |-> FALSE]
  ELSE LET newVal == replaceFirst(m.core[label].value, oldStr, newStr)
       IN IF Len(newVal) > m.core[label].limit THEN [m |-> m, ret |-> FALSE]
          ELSE commitBlock(m, label, newVal, t, "core:replaced")
CoreReplace(m, label, oldStr, newStr, t) ==
  IF label \notin DOMAIN m.core THEN [m |-> m, ret |-> FALSE]
  ELSE IF m.core[label].readOnly THEN [m |-> m, ret |-> FALSE]
  ELSE IF indexOf(m.core[label].value, oldStr) = -1 THEN [m |-> m, ret |-> FALSE]
  ELSE LET newVal == replaceFirst(m.core[label].value, oldStr, newStr)
       IN IF Len(newVal) > m.core[label].limit THEN [m |-> m, ret |-> FALSE]
          ELSE commitBlock(m, label, newVal, t, "core:replaced")

\* ---------------------------------------------------------------- HELPERS
\* topicWords, restricted to the words the model's contents use
topicWords(w) ==
  CASE w = "tax" -> <<"tax prep">>
    [] w = "bot" -> <<"bots">>
    [] w = "income" -> <<"income">>
    [] OTHER -> <<>>

\* content.toLowerCase().split(/\s+/): a content of the model is one lower-case word
wordsOf(content) == <<content>>

RECURSIVE sortTopics(_, _, _)
\* Object.keys(found) in insertion order, sorted (stably) by descending frequency
sortTopics(keys, count, first) ==
  IF keys = {} THEN <<>>
  ELSE LET best == CHOOSE k \in keys : \A o \in keys :
                      \/ count[k] > count[o]
                      \/ count[k] = count[o] /\ first[k] <= first[o]
       IN <<best>> \o sortTopics(keys \ {best}, count, first)

extractTopics(messages) ==
  Then([i \in 1..Len(messages) |-> topicWords(wordsOf(messages[i].content)[1])],
       LAMBDA hit :
  Then({hit[i][1] : i \in {j \in 1..Len(messages) : hit[j] # <<>>}}, LAMBDA keys :
  Then([k \in keys |-> Cardinality({i \in 1..Len(messages) : hit[i] = <<k>>})],
       LAMBDA count :
  Then([k \in keys |-> CHOOSE i \in 1..Len(messages) :
                          /\ hit[i] = <<k>>
                          /\ \A j \in 1..(i - 1) : hit[j] # <<k>>], LAMBDA first :
  sliceTo(sortTopics(keys, count, first), 5)))))

\* The summary text, as the sequence of its parts.  Contents of the model are
\* shorter than 80 characters, so the bookends are never cut.
buildSummary(messages) ==
  IF Len(messages) = 0 THEN <<"No messages.">>
  ELSE Then(SelectSeq(messages, LAMBDA x : x.role = "user"), LAMBDA userMsgs :
       Then(extractTopics(messages), LAMBDA topics :
          <<"Session had", ToString(Len(messages)), "messages",
            ToString(Len(userMsgs)), "from user">>
          \o (IF Len(topics) > 0 THEN <<"Topics discussed:">> \o topics ELSE <<>>)
          \o (IF Len(userMsgs) > 0
              THEN <<"Started with:", userMsgs[1].content>>
                   \o (IF Len(userMsgs) > 1
                       THEN <<"Ended with:", userMsgs[Len(userMsgs)].content>>
                       ELSE <<>>)
              ELSE <<>>)))

\* if (_summaries.length > MAX_SUMMARIES) _summaries = _summaries.slice(-MAX_SUMMARIES)
trimSummaries_off(sums) == sums
\* a trim that keeps the first MAX_SUMMARIES records: slice(0, MAX_SUMMARIES)
trimSummaries_head(sums) ==
  IF Len(sums) > MAX_SUMMARIES THEN sliceTo(sums, MAX_SUMMARIES) ELSE sums
trimSummaries(sums) ==
  IF Len(sums) > MAX_SUMMARIES THEN sliceLast(sums, MAX_SUMMARIES) ELSE sums

summaryRecord(sid, t, count, text, topics, page) ==
  [sessionId |-> sid, timestamp |-> t, messageCount |-> count,
   summary |-> text, keyTopics |-> topics, page |-> page]

\* ---------------------------------------------------------------- RECALL MEMORY
\* a compaction without the re-index loop
reindex_off(msgs) == msgs
reindex(msgs) == [i \in 1..Len(msgs) |-> [msgs[i] EXCEPT !.id = i - 1]]

\* a compaction that keeps the first SUMMARIZE_KEEP_RECENT turns and folds the rest
autoSummarize_keepOldest(m, page, t) ==
  LET total == Len(m.recall.messages)
  IN IF total < SUMMARIZE_THRESHOLD THEN m
     ELSE LET keepCount == SUMMARIZE_KEEP_RECENT
              toSummarize == sliceFrom(m.recall.messages, keepCount)
              toKeep == sliceTo(m.recall.messages, keepCount)
              rec == summaryRecord(m.recall.sessionId, t, Len(toSummarize),
                                   buildSummary(toSummarize),
                                   extractTopics(toSummarize), page)
          IN Then([m EXCEPT !.sums = trimSummaries(Append(@, rec)),
                            !.recall.messages = reindex(toKeep)], LAMBDA m1 :
             Then(save(m1, "recall", t), LAMBDA m2 :
             Then(save(m2, "summaries", t), LAMBDA m3 :
             emit(m3, "recall:summarized"))))
\* a compaction that emits once the record is pushed, the turns still in the buffer
autoSummarize_emitEarly(m, page, t) ==
  LET total == Len(m.recall.messages)
  IN IF total < SUMMARIZE_THRESHOLD THEN m
     ELSE LET keepCount == SUMMARIZE_KEEP_RECENT
              toSummarize == sliceTo(m.recall.messages, total - keepCount)
              toKeep == sliceFrom(m.recall.messages, total - keepCount)
              rec == summaryRecord(m.recall.sessionId, t, Len(toSummarize),
                                   buildSummary(toSummarize),
                                   extractTopics(toSummarize), page)
          IN Then([m EXCEPT !.sums = trimSummaries(Append(@, rec))], LAMBDA m0 :
             Then(emit(m0, "recall:summarized"), LAMBDA m1 :
             Then([m1 EXCEPT !.recall.messages = reindex(toKeep)], LAMBDA m2 :
             Then(save(m2, "recall", t), LAMBDA m3 :
             save(m3, "summaries", t)))))
autoSummarize(m, page, t) ==
  LET total == Len(m.recall.messages)
  IN IF total < SUMMARIZE_THRESHOLD THEN m
     ELSE LET keepCount == SUMMARIZE_KEEP_RECENT
              toSummarize == sliceTo(m.recall.messages, total - keepCount)
              toKeep == sliceFrom(m.recall.messages, total - keepCount)
              rec == summaryRecord(m.recall.sessionId, t, Len(toSummarize),
                                   buildSummary(toSummarize),
                                   extractTopics(toSummarize), page)
          IN Then([m EXCEPT !.sums = trimSummaries(Append(@, rec)),
                            !.recall.messages = reindex(toKeep)], LAMBDA m1 :
             Then(save(m1, "recall", t), LAMBDA m2 :
             Then(save(m2, "summaries", t), LAMBDA m3 :
             emit(m3, "recall:summarized"))))

\* if (_recall.messages.length >= SUMMARIZE_THRESHOLD) this._autoSummarize()
hitsThreshold_gt(total) == total > SUMMARIZE_THRESHOLD
hitsThreshold(total) == total >= SUMMARIZE_THRESHOLD

\* gives [m, ret]; the returned msg is the object in the buffer, so it carries the
\* id the re-indexing gave it
RecallAdd(m, role, content, page, t) ==
  LET msg == [id |-> Len(m.recall.messages), role |-> role, content |-> content]
  IN Then([m EXCEPT !.recall.messages = Append(@, msg)], LAMBDA m1 :
     Then(IF hitsThreshold(Len(m1.recall.messages))
          THEN autoSummarize(m1, page, t) ELSE m1, LAMBDA m2 :
     Then(save(m2, "recall", t), LAMBDA m3 :
     Then(emit(m3, "recall:added"), LAMBDA m4 :
     [m |-> m4, ret |-> m4.recall.messages[Len(m4.recall.messages)]]))))

\* recent(count): count || 20
RecallRecent(m, count) ==
  sliceLast(m.recall.messages, IF count = 0 THEN 20 ELSE count)

\* the call as a step of the machine: what it leaves and what it returns
recentCall(m, count) == [m |-> m, ret |-> RecallRecent(m, count)]

\* a clear that forgets the session as well
RecallClear_noSession(m, t) ==
  Then([m EXCEPT !.recall.messages = <<>>, !.recall.sessionId = NoSession], LAMBDA m1 :
  Then(save(m1, "recall", t), LAMBDA m2 :
  emit(m2, "recall:cleared")))
\* a clear that empties the summaries too
RecallClear_all(m, t) ==
  Then([m EXCEPT !.recall.messages = <<>>, !.sums = <<>>], LAMBDA m1 :
  Then(save(m1, "recall", t), LAMBDA m2 :
  emit(m2, "recall:cleared")))
RecallClear(m, t) ==
  Then([m EXCEPT !.recall.messages = <<>>], LAMBDA m1 :
  Then(save(m1, "recall", t), LAMBDA m2 :
  emit(m2, "recall:cleared")))

\* ---------------------------------------------------------------- SUMMARIES
\* all(): a copy of the records, oldest first; latest(): the last one, or null
SummariesAll(m) == m.sums
SummariesLatest(m) == IF Len(m.sums) > 0 THEN <<m.sums[Len(m.sums)]>> ELSE <<>>

\* add(text, meta) with meta absent: messageCount 0, no topics, the page of _config
SummariesAdd(m, text, page, t) ==
  LET rec == summaryRecord(m.recall.sessionId, t, 0, <<text>>, <<>>, page)
  IN Then([m EXCEPT !.sums = trimSummaries(Append(@, rec))], LAMBDA m1 :
     Then(save(m1, "summaries", t), LAMBDA m2 :
     emit(m2, "summaries:added")))

\* toContext(maxSummaries): the lines after the heading; the date of a record is
\* the day of its timestamp
DayMs == 24 * 60 * 60 * 1000
SummariesToContext(m, maxSummaries) ==
  LET recent == sliceLast(m.sums, IF maxSummaries = 0 THEN 3 ELSE maxSummaries)
  IN [i \in 1..Len(recent) |-> [date |-> recent[i].timestamp \div DayMs,
                                page |-> recent[i].page,
                                summary |-> recent[i].summary]]

\* ---------------------------------------------------------------- CONTEXT HEADER
\* The payload, as the record of what its lines print.  Object.keys order is the
\* insertion order of the blocks, which no call changes for an existing label.
headerLines(m, page, t) ==
  [current_date |-> t \div DayMs,
   current_time |-> (t % DayMs) \div 1000,
   page_context |-> page,
   recall_count |-> Len(m.recall.messages),
   summary_count |-> Len(m.sums),
   session_id |-> m.recall.sessionId,
   core_blocks |-> [l \in DOMAIN m.core |->
                      [chars |-> Len(m.core[l].value), limit |-> m.core[l].limit,
                       modified |-> m.core[l].lastModified]],
   memory_blocks |-> [l \in DOMAIN m.core |->
                      [chars |-> Len(m.core[l].value), limit |-> m.core[l].limit,
                       value |-> m.core[l].value]],
   summaries |-> SummariesToContext(m, 2),
   recent |-> LET r == RecallRecent(m, 6)
              IN [i \in 1..Len(r) |->
                    [role |-> IF r[i].role = "user" THEN "Commander" ELSE "Bot",
                     content |-> r[i].content]]]

\* a header that prints the age of a block instead of its modification time
getContextHeader_age(m, page, t) ==
  [headerLines(m, page, t) EXCEPT !.core_blocks =
     [l \in DOMAIN m.core |-> [chars |-> Len(m.core[l].value), limit |-> m.core[l].limit,
                               modified |-> t - m.core[l].lastModified]]]
getContextHeader(m, page, t) == headerLines(m, page, t)

\* a recent(count) written with splice: it takes the messages out of the buffer
contextHeaderCall_splice(m, page, t) ==
  [m |-> [m EXCEPT !.recall.messages = sliceTo(@, Len(@) - 6)],
   ret |-> getContextHeader(m, page, t)]
\* The call of getContextHeader gives [m, ret]: it reads _config, _recall,
\* _summaries and _coreBlocks, slice() copies what toContext and recent return,
\* and it assigns to none of them, saves nothing and emits nothing
contextHeaderCall(m, page, t) == [m |-> m, ret |-> getContextHeader(m, page, t)]

\* ---------------------------------------------------------------- INNER MONOLOGUE
\* think(thought): push, keep the last 50, emit
think(m, thought, t) ==
  Then([m EXCEPT !.log = Append(@, [thought |-> thought, timestamp |-> t])], LAMBDA m1 :
  Then([m1 EXCEPT !.log = IF Len(@) > 50 THEN sliceLast(@, 50) ELSE @], LAMBDA m2 :
  emit(m2, "monologue:thought")))

\* ---------------------------------------------------------------- LEARNING
\* A message is a sequence of words and phrases, joined by single spaces.  The
\* phrases are one alternative of each of the four patterns of processUserMessage.
NameTrigger == "my name is"
RememberTrigger == "remember that"
PrefTrigger == "i prefer"
DeadlineTrigger == "deadline is"

toLowerCase(w) ==
  CASE w = "Tea" -> "tea"
    [] w = "May" -> "may"
    [] OTHER -> w

\* name.replace(/\b\w/g, c => c.toUpperCase()) on a lower-case word or phrase
capitalize(w) ==
  CASE w = "bob" -> "Bob"
    [] w = "taxes" -> "Taxes"
    [] w = "tea" -> "Tea"
    [] w = "may" -> "May"
    [] w = "hello" -> "Hello"
    [] w = NameTrigger -> "My Name Is"
    [] w = RememberTrigger -> "Remember That"
    [] w = PrefTrigger -> "I Prefer"
    [] w = DeadlineTrigger -> "Deadline Is"
    [] OTHER -> w

\* String.length of a word or phrase, and of a text of them
wordLength(w) ==
  CASE w \in {"bob", "Tea", "tea", "May", "may"} -> 3
    [] w \in {"taxes", "hello"} -> 5
    [] w = PrefTrigger -> 8
    [] w = NameTrigger -> 10
    [] w = DeadlineTrigger -> 11
    [] w = RememberTrigger -> 13
    [] OTHER -> 1

RECURSIVE textLength(_)
textLength(s) ==
  IF s = <<>> THEN 0
  ELSE wordLength(s[1]) + (IF Len(s) > 1 THEN 1 ELSE 0) + textLength(Tail(s))

\* lower.match(/(?:trigger)\s+(.+)/): the place of the first trigger that has
\* text after it, from 1, or 0 (null).  For the name pattern the text after it
\* must start with two characters of [a-z\s], as every word here does.
matchAt(lower, trigger) ==
  LET hits == {i \in 1..(Len(lower) - 1) : lower[i] = trigger}
  IN IF hits = {} THEN 0 ELSE CHOOSE i \in hits : \A j \in hits : i <= j

\* the text a pattern captures: what follows the trigger, to the end of the
\* message (the name pattern takes at most 31 characters of it)
captured(lower, at) == sliceFrom(lower, at)

\* /Deadline: .+/g.exec(value)?.[0] || '' : the first 'Deadline: ' that has text
\* after it, with that text up to the end of its line.  "D" is such a line; the
\* texts that start a new line are "O" and the labels that the rules append.
LineStarts == {"F", "O", "\nName: ", "\nNote: ", "\nPreference: "}

deadlineLine(value) ==
  LET hits == {i \in 1..Len(value) :
                 \/ value[i] = "D"
                 \/ /\ value[i] = "Deadline: "
                    /\ i < Len(value)
                    /\ value[i + 1] \notin LineStarts}
  IN IF hits = {} THEN <<>>
     ELSE LET i == CHOOSE h \in hits : \A j \in hits : h <= j
              ends == {j \in i..Len(value) :
                         \A k \in (i + 1)..j : value[k] \notin LineStarts}
              last == CHOOSE j \in ends : \A k \in ends : k <= j
          IN IF value[i] = "D" THEN <<"D">> ELSE SubSeq(value, i, last)

\* one rule of processUserMessage: s is [m, learned]
nameRule(s, lower, t) ==
  Then(matchAt(lower, NameTrigger), LAMBDA at :
    IF at = 0 THEN s
    ELSE Then([i \in 1..Len(captured(lower, at)) |-> capitalize(captured(lower, at)[i])],
              LAMBDA name :
           [m |-> CoreAppend(s.m, "user_info", <<"\nName: ">> \o name, t).m,
            learned |-> <<[type |-> "name", value |-> name]>>]))

rememberRule(s, lower, t) ==
  Then(matchAt(lower, RememberTrigger), LAMBDA at :
    IF at = 0 THEN s
    ELSE Then(captured(lower, at), LAMBDA fact :
           [m |-> CoreAppend(s.m, "user_info", <<"\nNote: ">> \o fact, t).m,
            learned |-> <<[type |-> "fact", value |-> fact]>>]))

\* pref: the message itself, from the first 'i prefer' of its lower-case form
prefRule(s, message, lower, t) ==
  Then(matchAt(lower, PrefTrigger), LAMBDA at :
    IF at = 0 THEN s
    ELSE Then(sliceFrom(message, indexOf(lower, <<PrefTrigger>>)), LAMBDA pref :
           [m |-> CoreAppend(s.m, "user_info", <<"\nPreference: ">> \o pref, t).m,
            learned |-> <<[type |-> "preference", value |-> pref]>>]))

deadlineRule(s, lower, t) ==
  Then(matchAt(lower, DeadlineTrigger), LAMBDA at :
    IF at = 0 THEN s
    ELSE Then(captured(lower, at), LAMBDA value :
         Then(IF CoreGet(s.m, "project_facts") = <<>> THEN <<>>
              ELSE deadlineLine(CoreGet(s.m, "project_facts")[1]), LAMBDA oldStr :
           [m |-> CoreReplace(s.m, "project_facts", oldStr,
                              <<"Deadline: ">> \o value, t).m,
            learned |-> <<[type |-> "deadline", value |-> value]>>])))

\* processUserMessage(message): gives [m, ret], ret <<>> for null
processUserMessage(m, message, t) ==
  Then([i \in 1..Len(message) |-> toLowerCase(message[i])], LAMBDA lower :
  Then([m |-> m, learned |-> <<>>], LAMBDA s0 :
  Then(nameRule(s0, lower, t), LAMBDA s1 :
  Then(rememberRule(s1, lower, t), LAMBDA s2 :
  Then(prefRule(s2, message, lower, t), LAMBDA s3 :
  Then(deadlineRule(s3, lower, t), LAMBDA s4 :
  IF s4.learned # <<>>
  THEN Then(think(s4.m, s4.learned[1], t), LAMBDA m5 :
         [m |-> emit(m5, "learning:updated"), ret |-> s4.learned])
  ELSE [m |-> s4.m, ret |-> <<>>]))))))

\* ---------------------------------------------------------------- PERSISTENCE
\* lastSessionId && lastSessionTime && (Date.now() - lastSessionTime < sessionTimeout)
canResume_le(lastId, lastTime, t) ==
  /\ lastId # <<>> /\ lastId[1] # NoSession
  /\ lastTime # <<>> /\ lastTime[1] # 0
  /\ t - lastTime[1] <= sessionTimeout
canResume_seconds(lastId, lastTime, t) ==
  /\ lastId # <<>> /\ lastId[1] # NoSession
  /\ lastTime # <<>> /\ lastTime[1] # 0
  /\ t - lastTime[1] < 30 * 1000
canResume(lastId, lastTime, t) ==
  /\ lastId # <<>> /\ lastId[1] # NoSession
  /\ lastTime # <<>> /\ lastTime[1] # 0
  /\ t - lastTime[1] < sessionTimeout

\* oldRecall && oldRecall.messages && oldRecall.messages.length > 2; the messages
\* of a string are undefined
worthSummary_gt3(oldRecall) ==
  oldRecall # <<>> /\ ~isPrimitive(oldRecall[1]) /\ Len(oldRecall[1].messages) > 3
worthSummary(oldRecall) ==
  oldRecall # <<>> /\ ~isPrimitive(oldRecall[1]) /\ Len(oldRecall[1].messages) > 2

\* sid is the id _generateSessionId() gives if it is called
load(m, page, t, sid) ==
  LET savedCore == StorageGet(m.ls, "core_blocks")
      savedSummaries == StorageGet(m.ls, "summaries")
      lastSessionId == StorageGet(m.ls, "last_session_id")
      lastSessionTime == StorageGet(m.ls, "last_session_time")
      resumed(m1) ==
        Then(StorageGetRecall(m1.ls, lastSessionId[1]), LAMBDA savedRecall :
          [m1 EXCEPT !.recall.sessionId = lastSessionId[1],
                     !.recall.messages =
                        IF savedRecall = <<>> THEN @
                        ELSE IF isPrimitive(savedRecall[1]) THEN <<>>
                        ELSE savedRecall[1].messages,
                     !.recall.startedAt =
                        IF savedRecall = <<>> THEN @
                        ELSE IF isPrimitive(savedRecall[1]) THEN 0
                        ELSE savedRecall[1].startedAt])
      summarized(m1, oldRecall) ==
        IF worthSummary(oldRecall)
        THEN LET rec == summaryRecord(lastSessionId[1], t,
                           Len(oldRecall[1].messages),
                           buildSummary(oldRecall[1].messages),
                           extractTopics(oldRecall[1].messages), page)
             IN Then(trimSummaries(Append(m1.sums, rec)), LAMBDA sums :
                  [m1 EXCEPT !.sums = sums, !.ls = StorageSet(@, "summaries", sums)])
        ELSE m1
      renewed(m1) ==
        Then(IF lastSessionId # <<>> /\ lastSessionId[1] # NoSession
             THEN StorageGetRecall(m1.ls, lastSessionId[1]) ELSE <<>>, LAMBDA oldRecall :
        Then(summarized(m1, oldRecall), LAMBDA m1a :
          [m1a EXCEPT !.recall = [sessionId |-> sid, messages |-> <<>>,
                                  startedAt |-> t]]))
  IN Then([m EXCEPT !.core = IF savedCore # <<>> THEN savedCore[1] ELSE @,
                    !.sums = IF savedSummaries # <<>> /\ isArrayStored(m.ls, "summaries")
                             THEN savedSummaries[1] ELSE @],
          LAMBDA m1 :
     Then(IF canResume(lastSessionId, lastSessionTime, t)
          THEN resumed(m1) ELSE renewed(m1), LAMBDA m2 :
       [m2 EXCEPT !.ls = StorageSet(StorageSet(@, "last_session_id", m2.recall.sessionId),
                                    "last_session_time", t)]))

\* ---------------------------------------------------------------- DEFAULT BLOCKS
\* One character stands for each default text (lines 764 and 791).  The default
\* project facts are 'Project: ...\n', written "F", the line 'Deadline: April 10,
\* 2026 (mail by certified)', written "D", and '\nOregon ...' to the end, written "O".
PersonaText == <<"P">>
ProjectFactsText == <<"F", "D", "O">>
defaultValue(label) ==
  CASE label = "persona" -> PersonaText
    [] label = "project_facts" -> ProjectFactsText
    [] OTHER -> <<>>
defaultLimit(label) ==
  CASE label = "task_state" -> 1500
    [] label = "project_facts" -> 3000
    [] OTHER -> 2000

\* a default defined whether or not the label is there
defineDefault_always(m, label, t) ==
  CoreDefine(m, label, defaultValue(label), defaultLimit(label), FALSE, t)
defineDefault(m, label, t) ==
  IF label \notin DOMAIN m.core
  THEN CoreDefine(m, label, defaultValue(label), defaultLimit(label), FALSE, t)
  ELSE m

defineDefaults(m, t) ==
  Then(defineDefault(m, "persona", t), LAMBDA m1 :
  IF m1.threw THEN m1 ELSE
  Then(defineDefault(m1, "user_info", t), LAMBDA m2 :
  IF m2.threw THEN m2 ELSE
  Then(defineDefault(m2, "task_state", t), LAMBDA m3 :
  IF m3.threw THEN m3 ELSE
  defineDefault(m3, "project_facts", t))))

\* ---------------------------------------------------------------- PUBLIC API
\* 'Role: ' + user.role + '\nLabel: ' + ..., written "R"
RoleText == <<"R">>

\* init(config) when not yet initialized; hasRole: window.FPCS_USER has a role
init(m, page, hasRole, t, sid) ==
  Then(load(m, page, t, sid), LAMBDA m1 :
  Then(defineDefaults(m1, t), LAMBDA m2 :
  IF m2.threw THEN m2 ELSE
  Then(IF CoreGet(m2, "user_info") # <<>> THEN CoreGet(m2, "user_info")[1] ELSE <<>>,
       LAMBDA userInfo :
  Then(IF hasRole /\ indexOf(userInfo, <<"R">>) = -1
       THEN CoreAppend(m2, "user_info", RoleText, t).m ELSE m2, LAMBDA m3 :
  emit(m3, "init")))))

\* FPCSMemory.init(config): if (_initialized) return; otherwise _config takes the
\* userId and the page of the call and the stores are loaded.  Gives what the call
\* leaves: the stores and _config.
FPCSMemoryInit_always(done, m, cfg, userId, page, hasRole, t, sid) ==
  [m |-> init(m, page, hasRole, t, sid), config |-> [userId |-> userId, page |-> page]]
FPCSMemoryInit(done, m, cfg, userId, page, hasRole, t, sid) ==
  IF done THEN [m |-> m, config |-> cfg]
  ELSE [m |-> init(m, page, hasRole, t, sid),
        config |-> [userId |-> userId, page |-> page]]

\* a reset that keeps the blocks it finds
reset_keepBlocks(m, t, sid) ==
  LET ls1 == StorageRemove(StorageRemove(StorageRemove(StorageRemove(m.ls,
               "core_blocks"), "summaries"), "last_session_id"), "last_session_time")
      ls2 == IF m.recall.sessionId # NoSession
             THEN StorageRemoveRecall(ls1, m.recall.sessionId) ELSE ls1
  IN Then([m EXCEPT !.sums = <<>>, !.ls = ls2, !.log = <<>>,
                    !.recall = [sessionId |-> sid, messages |-> <<>>, startedAt |-> t]],
          LAMBDA m1 :
     Then(defineDefaults(m1, t), LAMBDA m2 :
     Then(save(m2, "core", t), LAMBDA m3 :
     emit(m3, "reset"))))
reset(m, t, sid) ==
  LET ls1 == StorageRemove(StorageRemove(StorageRemove(StorageRemove(m.ls,
               "core_blocks"), "summaries"), "last_session_id"), "last_session_time")
      ls2 == IF m.recall.sessionId # NoSession
             THEN StorageRemoveRecall(ls1, m.recall.sessionId) ELSE ls1
  IN Then([m EXCEPT !.core = NoBlocks, !.sums = <<>>, !.ls = ls2, !.log = <<>>,
                    !.recall = [sessionId |-> sid, messages |-> <<>>, startedAt |-> t]],
          LAMBDA m1 :
     Then(defineDefaults(m1, t), LAMBDA m2 :
     Then(save(m2, "core", t), LAMBDA m3 :
     emit(m3, "reset"))))

\* ---------------------------------------------------------------- INITIAL STATES
\* The module's state when the script has run and init has not (lines 41-62)
FreshConfig == [userId |-> "anonymous", page |-> "unknown"]
FreshRecall == [sessionId |-> NoSession, messages |-> <<>>, startedAt |-> 0]

EmptyStorage == [core_blocks |-> <<>>, summaries |-> <<>>, last_session_id |-> <<>>,
                 last_session_time |-> <<>>, recall |-> NoBlocks,
                 shape |-> [k \in Keys |-> "json"], unreadable |-> {}, denied |-> {}]

\* What earlier page loads left in localStorage: nothing (first visit), or the
\* blocks of an init, session 1 last touched at StartTime with k turns, and c
\* summaries of 56 turns each made by threshold compactions of session 1 at
\* different times.
InitTurnCounts == {2, 5, 79}
InitSummaryCounts == {0, 20}
FirstSid == 1

Prefilled(k) ==
  [i \in 1..k |-> [id |-> i - 1,
                   role |-> IF i % 2 = 1 THEN "user" ELSE "bot",
                   content |-> IF i % 3 = 0 THEN "tax" ELSE "hello"]]

PrefilledSummary ==
  LET folded == Prefilled(SUMMARIZE_THRESHOLD - SUMMARIZE_KEEP_RECENT)
  IN summaryRecord(FirstSid, StartTime, Len(folded), buildSummary(folded),
                   extractTopics(folded), PageName)

\* the compactions of session 1 were five minutes apart, the last at StartTime
PrefilledTime(i, c) == StartTime - (c - i) * FiveMinutes

EarlierStorage(k, c) ==
  LET m0 == [core |-> NoBlocks, recall |-> FreshRecall, sums |-> <<>>,
             ls |-> EmptyStorage, log |-> <<>>, ev |-> <<>>, threw |-> FALSE]
  IN Then(init(m0, PageName, TRUE, StartTime, FirstSid).ls, LAMBDA ls1 :
     Then(IF k > 0
          THEN StorageSetRecall(ls1, FirstSid,
                 [sessionId |-> FirstSid, messages |-> Prefilled(k),
                  startedAt |-> StartTime])
          ELSE ls1, LAMBDA ls2 :
     IF c > 0
     THEN Then(PrefilledSummary, LAMBDA rec :
            StorageSet(ls2, "summaries",
              [i \in 1..c |-> [rec EXCEPT !.timestamp = PrefilledTime(i, c)]]))
     ELSE ls2))

NoUse == [calls |-> 0, ticks |-> 0, defines |-> 0, edits |-> 0, learns |-> 0,
          faults |-> 0]
NoCall == [label |-> "", text |-> <<>>, newText |-> <<>>, was |-> <<>>]

InitWith(ls, sid, k, c) ==
  /\ initialized = FALSE
  /\ config = FreshConfig
  /\ coreBlocks = NoBlocks
  /\ recall = FreshRecall
  /\ summaries = <<>>
  /\ localStorage = ls
  /\ now = StartTime
  /\ nextSid = FirstSid + 1
  /\ monologue = <<>>
  /\ events = <<>>
  /\ op = "script"
  /\ ret = FALSE
  /\ used = NoUse
  /\ hist = [appended |-> k + c * (SUMMARIZE_THRESHOLD - SUMMARIZE_KEEP_RECENT),
             shortDropped |-> 0,
             cleared |-> FALSE,
             lastAddAt |-> IF k > 0 THEN StartTime ELSE 0,
             resetSince |-> FALSE,
             reads |-> 0,
             readAt |-> 0,
             mutations |-> IF sid = NoSession THEN NoBlocks
                           ELSE [l \in DefaultLabels |-> IF l = "user_info" THEN 1 ELSE 0],
             call |-> NoCall,
             count |-> 0,
             lastAdd |-> [sessionId |-> sid, id |-> k - 1],
             left |-> [sessionId |-> sid, messages |-> Prefilled(k),
                       lastAddAt |-> IF k > 0 THEN StartTime ELSE 0,
                       afterReset |-> FALSE]]

Init ==
  \/ InitWith(EmptyStorage, NoSession, 0, 0)
  \/ \E k \in InitTurnCounts, c \in InitSummaryCounts :
        InitWith(EarlierStorage(k, c), FirstSid, k, c)

\* ---------------------------------------------------------------- ACTIONS
\* hist.reads: getContextHeader calls since the last other call, counted to 2;
\* hist.readAt: the time of the first of them; hist.call: the label and the texts
\* of the call, if it is a call on a block, and the value the block had;
\* hist.count: the count of the call, if it is recent(count)
Called(h) == [h EXCEPT !.reads = 0, !.readAt = 0, !.call = NoCall, !.count = 0]
CallOn(label, text, newText) ==
  [label |-> label, text |-> text, newText |-> newText, was |-> CoreGet(Mem, label)]

\* hist.mutations: per block, the set / append / replace calls that returned true
\* since the block was defined
defined(muts, labels) ==
  [l \in DOMAIN muts \cup labels |-> IF l \in labels THEN 0 ELSE muts[l]]
mutated(muts, label, ok) ==
  IF ok THEN [muts EXCEPT ![label] = @ + 1] ELSE muts

Commit(m) ==
  /\ coreBlocks' = m.core
  /\ recall' = m.recall
  /\ summaries' = m.sums
  /\ localStorage' = m.ls
  /\ monologue' = m.log
  /\ events' = m.ev

\* The clock advances; nothing else does
Tick ==
  /\ used.ticks < MaxTicks
  /\ \E d \in TickSteps : now' = now + d
  /\ used' = [used EXCEPT !.ticks = @ + 1]
  /\ UNCHANGED <<initialized, config, coreBlocks, recall, summaries, localStorage,
                 nextSid, monologue, events, op, ret, hist>>

\* The page is loaded again: the script runs anew (lines 41-62), localStorage stays
PageLoad ==
  /\ initialized
  /\ used.calls < MaxCalls
  /\ initialized' = FALSE
  /\ config' = FreshConfig
  /\ coreBlocks' = NoBlocks
  /\ recall' = FreshRecall
  /\ summaries' = <<>>
  /\ monologue' = <<>>
  /\ events' = <<>>
  /\ op' = "script"
  /\ ret' = FALSE
  /\ used' = [used EXCEPT !.calls = @ + 1]
  /\ hist' = [Called(hist) EXCEPT !.resetSince = FALSE,
                          !.left = [sessionId |-> recall.sessionId,
                                    messages |-> recall.messages,
                                    lastAddAt |-> hist.lastAddAt,
                                    afterReset |-> hist.resetSince]]
  /\ UNCHANGED <<localStorage, now, nextSid>>

\* the turns of a stored session that _load closes
closedTurns(ls, t) ==
  LET lastId == StorageGet(ls, "last_session_id")
      lastTime == StorageGet(ls, "last_session_time")
  IN IF lastId # <<>> /\ lastTime # <<>> /\ t - lastTime[1] >= sessionTimeout
        /\ StorageGetRecall(ls, lastId[1]) # <<>>
        /\ ~isPrimitive(StorageGetRecall(ls, lastId[1])[1])
     THEN Len(StorageGetRecall(ls, lastId[1])[1].messages) ELSE 0

\* FPCSMemory.init({page}) of the auto-init (lines 993-1003), which runs once
\* window.FPCS_USER is set; auth.js:681 always sets it with a role.  An init that
\* throws does not reach _initialized = true (line 884).
InitCall ==
  /\ ~initialized
  /\ \E m \in {init(Mem, PageName, TRUE, now, nextSid)},
        n \in {closedTurns(localStorage, now)} :
        /\ Commit(m)
        /\ nextSid' = IF m.recall.sessionId = nextSid THEN nextSid + 1 ELSE nextSid
        /\ hist' = [Called(hist) EXCEPT
                      !.shortDropped = IF n <= 2 THEN @ + n ELSE @,
                      !.mutations =
                         mutated(defined(@, DOMAIN m.core \ DOMAIN @), "user_info",
                                 \E i \in 1..Len(m.ev) : m.ev[i].name = "core:appended")]
        /\ initialized' = ~m.threw
  /\ config' = [config EXCEPT !.page = PageName]
  /\ op' = "init"
  /\ ret' = FALSE
  /\ UNCHANGED <<now, used>>

\* init called again, by a caller or by a later 'fpcs-authed' event (line 999),
\* for the same or another user and page
UserIds == {"anonymous", "u2"}
Pages == {PageName, "Ledger"}

InitAgain ==
  /\ initialized
  /\ \E userId \in UserIds, page \in Pages :
       \E r \in {FPCSMemoryInit(initialized, Mem, config, userId, page, TRUE,
                                now, nextSid)} :
          /\ Commit(r.m)
          /\ config' = r.config
          /\ nextSid' = IF r.m.recall.sessionId = nextSid THEN nextSid + 1 ELSE nextSid
  /\ op' = "init"
  /\ ret' = FALSE
  /\ hist' = Called(hist)
  /\ UNCHANGED <<initialized, now, used>>

\* recall.recent(count), as bot-assistant.js:108 calls it
Recent ==
  /\ initialized
  /\ \E count \in 0..MaxRecent :
       \E r \in {recentCall(Mem, count)} :
          /\ Commit(r.m) /\ ret' = r.ret
          /\ hist' = [Called(hist) EXCEPT !.count = count]
  /\ op' = "recent"
  /\ UNCHANGED <<initialized, config, now, nextSid, used>>

\* The callers use the memory only once FPCSMemory.isReady() (bot-assistant.js:74)
Add ==
  /\ initialized
  /\ used.calls < MaxCalls
  /\ \E in \in AddInputs :
       \E r \in {RecallAdd(Mem, in.role, in.content, config.page, now)} :
          /\ Commit(r.m) /\ ret' = r.ret
          /\ hist' = [Called(hist) EXCEPT
                        !.appended = @ + 1, !.lastAddAt = now,
                        !.lastAdd = [sessionId |-> r.m.recall.sessionId, id |-> r.ret.id]]
  /\ op' = "add"
  /\ used' = [used EXCEPT !.calls = @ + 1]
  /\ UNCHANGED <<initialized, config, now, nextSid>>

Clear ==
  /\ initialized
  /\ used.calls < MaxCalls
  /\ \E m \in {RecallClear(Mem, now)} : Commit(m)
  /\ op' = "clear"
  /\ ret' = FALSE
  /\ used' = [used EXCEPT !.calls = @ + 1]
  /\ hist' = [Called(hist) EXCEPT !.cleared = TRUE]
  /\ UNCHANGED <<initialized, config, now, nextSid>>

ManualSummary ==
  /\ initialized
  /\ used.calls < MaxCalls
  /\ \E m \in {SummariesAdd(Mem, "note", config.page, now)} : Commit(m)
  /\ op' = "summaries.add"
  /\ ret' = FALSE
  /\ used' = [used EXCEPT !.calls = @ + 1]
  /\ hist' = Called(hist)
  /\ UNCHANGED <<initialized, config, now, nextSid>>

Reset ==
  /\ initialized
  /\ used.calls < MaxCalls
  /\ \E m \in {reset(Mem, now, nextSid)} :
        /\ Commit(m)
        /\ hist' = [Called(hist) EXCEPT !.cleared = TRUE, !.resetSince = TRUE,
                                        !.lastAddAt = 0,
                                        !.mutations = [l \in DOMAIN m.core |-> 0]]
  /\ nextSid' = nextSid + 1
  /\ op' = "reset"
  /\ ret' = FALSE
  /\ used' = [used EXCEPT !.calls = @ + 1]
  /\ UNCHANGED <<initialized, config, now>>

ContextHeader ==
  /\ initialized
  /\ op' = "getContextHeader"
  /\ \E r \in {contextHeaderCall(Mem, config.page, now)} :
        Commit(r.m) /\ ret' = r.ret
  /\ hist' = [hist EXCEPT !.reads = Min(@ + 1, 2),
                          !.readAt = IF hist.reads = 0 THEN now ELSE @]
  /\ UNCHANGED <<initialized, config, now, nextSid, used>>

\* the label the model defines and edits, undefined until define is called on it;
\* a second define finds it defined
DefineLabels == {"x"}

Define ==
  /\ initialized
  /\ hist.call = NoCall
  /\ used.defines < MaxDefines
  /\ \E label \in DefineLabels, value \in Texts, limit \in 0..MaxLimit,
        readOnly \in BOOLEAN :
       \E m \in {CoreDefine(Mem, label, value, limit, readOnly, now)} :
          /\ Commit(m)
          /\ hist' = [Called(hist) EXCEPT
                        !.mutations = defined(@, {label}),
                        !.call = CallOn(label, value, <<>>)]
  /\ op' = "define"
  /\ ret' = FALSE
  /\ used' = [used EXCEPT !.defines = @ + 1]
  /\ UNCHANGED <<initialized, config, now, nextSid>>

EditLabels == DefineLabels

Set ==
  /\ initialized
  /\ hist.call = NoCall
  /\ used.edits < MaxEdits
  /\ \E label \in EditLabels, value \in Texts :
       \E r \in {CoreSet(Mem, label, value, now)} :
          /\ Commit(r.m) /\ ret' = r.ret
          /\ hist' = [Called(hist) EXCEPT
                        !.mutations = mutated(@, label, r.ret),
                        !.call = CallOn(label, value, <<>>)]
  /\ op' = "set"
  /\ used' = [used EXCEPT !.edits = @ + 1]
  /\ UNCHANGED <<initialized, config, now, nextSid>>

AppendTo ==
  /\ initialized
  /\ hist.call = NoCall
  /\ used.edits < MaxEdits
  /\ \E label \in EditLabels, content \in Texts :
       \E r \in {CoreAppend(Mem, label, content, now)} :
          /\ Commit(r.m) /\ ret' = r.ret
          /\ hist' = [Called(hist) EXCEPT
                        !.mutations = mutated(@, label, r.ret),
                        !.call = CallOn(label, content, <<>>)]
  /\ op' = "append"
  /\ used' = [used EXCEPT !.edits = @ + 1]
  /\ UNCHANGED <<initialized, config, now, nextSid>>

Replace ==
  /\ initialized
  /\ hist.call = NoCall
  /\ used.edits < MaxEdits
  /\ \E label \in EditLabels, oldStr \in Texts, newStr \in ReplaceTexts :
       \E r \in {CoreReplace(Mem, label, oldStr, newStr, now)} :
          /\ Commit(r.m) /\ ret' = r.ret
          /\ hist' = [Called(hist) EXCEPT
                        !.mutations = mutated(@, label, r.ret),
                        !.call = CallOn(label, oldStr, newStr)]
  /\ op' = "replace"
  /\ used' = [used EXCEPT !.edits = @ + 1]
  /\ UNCHANGED <<initialized, config, now, nextSid>>

\* The messages: 'hello', and one or more of four clauses, each a trigger and a
\* word, short enough for the name pattern to take all that follows its trigger
\* and for the preference to stay within its 100 characters
Clauses == {<<NameTrigger, "bob">>, <<RememberTrigger, "taxes">>,
            <<PrefTrigger, "Tea">>, <<DeadlineTrigger, "May">>}

RECURSIVE flatten(_)
flatten(cs) == IF cs = <<>> THEN <<>> ELSE cs[1] \o flatten(Tail(cs))

Messages ==
  {<<"hello">>} \cup
  {msg \in {flatten(cs) : cs \in UNION {[1..k -> Clauses] : k \in 1..MaxClauses}} :
     /\ textLength(msg) <= 100
     /\ matchAt(msg, NameTrigger) > 0 =>
          textLength(captured(msg, matchAt(msg, NameTrigger))) <= 31}

\* the calls of the callers on the default blocks: core.set('user_info', '')
\* (bot-assistant.js:134), and a set or a read-only define by any caller
DefaultEdits == {"user_info", "project_facts"}
DefaultTexts == {<<>>, <<"a">>}

SetDefault ==
  /\ initialized
  /\ hist.call = NoCall
  /\ used.edits < MaxEdits
  /\ \E label \in DefaultEdits, value \in DefaultTexts :
       \E r \in {CoreSet(Mem, label, value, now)} :
          /\ Commit(r.m) /\ ret' = r.ret
          /\ hist' = [Called(hist) EXCEPT
                        !.mutations = mutated(@, label, r.ret),
                        !.call = CallOn(label, value, <<>>)]
  /\ op' = "set"
  /\ used' = [used EXCEPT !.edits = @ + 1]
  /\ UNCHANGED <<initialized, config, now, nextSid>>

DefineDefault ==
  /\ initialized
  /\ hist.call = NoCall
  /\ used.defines < MaxDefines
  /\ \E label \in DefaultEdits :
       \E m \in {CoreDefine(Mem, label, <<>>, 0, TRUE, now)} :
          /\ Commit(m)
          /\ hist' = [Called(hist) EXCEPT
                        !.mutations = defined(@, {label}),
                        !.call = CallOn(label, <<>>, <<>>)]
  /\ op' = "define"
  /\ ret' = FALSE
  /\ used' = [used EXCEPT !.defines = @ + 1]
  /\ UNCHANGED <<initialized, config, now, nextSid>>

\* core.append('user_info', '\nNote: ' + fact) (bot-assistant.js:126), and a
\* replace, on the default blocks
AppendDefault ==
  /\ initialized
  /\ hist.call = NoCall
  /\ used.edits < MaxEdits
  /\ \E label \in DefaultEdits, content \in {<<"\nNote: ", "a">>} :
       \E r \in {CoreAppend(Mem, label, content, now)} :
          /\ Commit(r.m) /\ ret' = r.ret
          /\ hist' = [Called(hist) EXCEPT
                        !.mutations = mutated(@, label, r.ret),
                        !.call = CallOn(label, content, <<>>)]
  /\ op' = "append"
  /\ used' = [used EXCEPT !.edits = @ + 1]
  /\ UNCHANGED <<initialized, config, now, nextSid>>

ReplaceDefault ==
  /\ initialized
  /\ hist.call = NoCall
  /\ used.edits < MaxEdits
  /\ \E label \in DefaultEdits, oldStr \in {<<"D">>, <<"R">>}, newStr \in {<<"a">>} :
       \E r \in {CoreReplace(Mem, label, oldStr, newStr, now)} :
          /\ Commit(r.m) /\ ret' = r.ret
          /\ hist' = [Called(hist) EXCEPT
                        !.mutations = mutated(@, label, r.ret),
                        !.call = CallOn(label, oldStr, newStr)]
  /\ op' = "replace"
  /\ used' = [used EXCEPT !.edits = @ + 1]
  /\ UNCHANGED <<initialized, config, now, nextSid>>

\* The browser starts or stops refusing writes (of no key, of one key or of all
\* keys) and reads (of no key, of the blocks or of all keys)
DeniedSets == {{}, Keys} \cup {{k} : k \in StoreKeys}
UnreadableSets == {{}, Keys}

StorageFault ==
  /\ used.faults < MaxFaults
  /\ \E d \in DeniedSets, u \in UnreadableSets :
       /\ <<d, u>> # <<localStorage.denied, localStorage.unreadable>>
       /\ localStorage' = [localStorage EXCEPT !.denied = d, !.unreadable = u]
  /\ used' = [used EXCEPT !.faults = @ + 1]
  /\ UNCHANGED <<initialized, config, coreBlocks, recall, summaries, now, nextSid,
                 monologue, events, op, ret, hist>>

\* the writes of a call, per block, from the events it emitted
writes(ev, name) == Cardinality({i \in 1..Len(ev) : ev[i].name = name})

\* learning.processUserMessage(text), as sendMessage calls it (bot-assistant.js:679)
Process ==
  /\ initialized
  /\ hist.call = NoCall
  /\ used.learns < MaxLearns
  /\ \E message \in Messages :
       \E r \in {processUserMessage(Mem, message, now)} :
          /\ Commit(r.m) /\ ret' = r.ret
          /\ hist' = [Called(hist) EXCEPT
                        !.mutations =
                           [l \in DOMAIN @ |->
                              @[l] + (IF l = "user_info"
                                      THEN writes(r.m.ev, "core:appended")
                                      ELSE IF l = "project_facts"
                                      THEN writes(r.m.ev, "core:replaced") ELSE 0)],
                        !.call = [NoCall EXCEPT !.label = "learning",
                                                !.text = message]]
  /\ op' = "processUserMessage"
  /\ used' = [used EXCEPT !.learns = @ + 1]
  /\ UNCHANGED <<initialized, config, now, nextSid>>

\* What was observed of the last call on a block (the call, what it returned, the
\* events it emitted) is read by the properties and then dropped; the program's
\* state stays
Forget ==
  /\ hist.call # NoCall
  /\ hist' = [hist EXCEPT !.call = NoCall]
  /\ op' = "returned"
  /\ ret' = FALSE
  /\ events' = <<>>
  /\ UNCHANGED <<initialized, config, coreBlocks, recall, summaries, localStorage,
                 now, nextSid, monologue, used>>

\* ---------------------------------------------------------------- SPECIFICATIONS
\* Sessions, the recall buffer and the summaries, over page loads and time
Next ==
  \/ Tick
  \/ PageLoad
  \/ InitCall
  \/ Add
  \/ Clear
  \/ ManualSummary
  \/ Reset

Spec == Init /\ [][Next]_vars

\* The context header, read between the calls and as time passes
NextHeader ==
  \/ Tick
  \/ InitCall
  \/ Add
  \/ ManualSummary
  \/ ContextHeader

SpecHeader == Init /\ [][NextHeader]_vars

\* The core memory blocks: first visit, then the calls on the blocks, then at most
\* one reset or page load, after which init restores what was saved
InitCore == InitWith(EmptyStorage, NoSession, 0, 0)

NextCore ==
  \/ InitCall
  \/ (hist.call = NoCall /\ InitAgain)
  \/ (used.calls = 0 /\ Define)
  \/ (used.calls = 0 /\ Set)
  \/ (used.calls = 0 /\ AppendTo)
  \/ (used.calls = 0 /\ Replace)
  \/ Forget
  \/ (used.calls = 0 /\ hist.call = NoCall /\ Reset)
  \/ (used.calls = 0 /\ hist.call = NoCall /\ PageLoad)

SpecCore == InitCore /\ [][NextCore]_vars

\* The recall buffer read and emptied, and init called again, as time passes
NextRecall ==
  \/ Tick
  \/ InitCall
  \/ InitAgain
  \/ Add
  \/ Clear
  \/ Recent

SpecRecall == Init /\ [][NextRecall]_vars

\* Learning from the user's messages: first visit, then calls on the default
\* blocks, then the messages, then at most one page load, after which init
\* restores what was saved
NextLearning ==
  \/ InitCall
  \/ (used.calls = 0 /\ used.learns = 0 /\ SetDefault)
  \/ (used.calls = 0 /\ used.learns = 0 /\ DefineDefault)
  \/ (used.calls = 0 /\ Process)
  \/ Forget
  \/ (used.calls = 0 /\ hist.call = NoCall /\ PageLoad)

SpecLearning == InitCore /\ [][NextLearning]_vars

\* A localStorage that refuses writes and reads: a first visit or a return to a
\* session of 5 turns with a full archive; then either calls on the default
\* blocks or calls on the log and the summaries, resets and page loads
InitFaulty ==
  \/ InitWith(EmptyStorage, NoSession, 0, 0)
  \/ InitWith(EarlierStorage(5, MAX_SUMMARIES), FirstSid, 5, MAX_SUMMARIES)

NextFaulty ==
  \/ StorageFault
  \/ InitCall
  \/ (used.calls = 0 /\ SetDefault)
  \/ (used.calls = 0 /\ DefineDefault)
  \/ (used.calls = 0 /\ AppendDefault)
  \/ (used.calls = 0 /\ ReplaceDefault)
  \/ Forget
  \/ (used.edits + used.defines = 0 /\ Add)
  \/ (used.edits + used.defines = 0 /\ Clear)
  \/ (used.edits + used.defines = 0 /\ ManualSummary)
  \/ (used.edits + used.defines = 0 /\ Reset)
  \/ (used.edits + used.defines = 0 /\ PageLoad)

SpecFaulty == InitFaulty /\ [][NextFaulty]_vars

\* Every call of the public API over page loads: a first visit or a return to a
\* session one turn short of the threshold; time passes between the page loads;
\* reads of the context header, then calls on the default blocks, or messages to
\* learn from, or calls on the log and the summaries, resets and page loads
InitSession ==
  \/ InitWith(EmptyStorage, NoSession, 0, 0)
  \/ InitWith(EarlierStorage(SUMMARIZE_THRESHOLD - 1, 0), FirstSid,
              SUMMARIZE_THRESHOLD - 1, 0)

NextSession ==
  \/ (~initialized /\ Tick)
  \/ InitCall
  \/ (used.calls + used.learns = 0 /\ SetDefault)
  \/ (used.calls + used.learns = 0 /\ DefineDefault)
  \/ (used.calls + used.learns = 0 /\ AppendDefault)
  \/ (used.calls + used.learns = 0 /\ ReplaceDefault)
  \/ (used.calls + used.edits + used.defines = 0 /\ Process)
  \/ Forget
  \/ (used.edits + used.defines + used.learns = 0 /\ Add)
  \/ (used.edits + used.defines + used.learns = 0 /\ Clear)
  \/ (used.edits + used.defines + used.learns = 0 /\ ManualSummary)
  \/ (used.calls + used.edits + used.defines + used.learns = 0 /\ ContextHeader)
  \/ (used.edits + used.defines + used.learns = 0 /\ Reset)
  \/ (used.edits + used.defines + used.learns = 0 /\ PageLoad)

SpecSession == InitSession /\ [][NextSession]_vars

\* What is stored under a key is replaced, outside the module (another script of
\* the origin, the developer tools), by text that is not JSON or by the JSON
\* string '"x"'
StorageCorrupt ==
  /\ used.faults < MaxFaults
  /\ \E key \in StoreKeys, shape \in {"garbled", "text"} :
       /\ localStorage.shape[key] = "json"
       /\ localStorage' = [localStorage EXCEPT !.shape[key] = shape]
  /\ used' = [used EXCEPT !.faults = @ + 1]
  /\ UNCHANGED <<initialized, config, coreBlocks, recall, summaries, now, nextSid,
                 monologue, events, op, ret, hist>>

\* Page loads over a localStorage whose snapshots may be replaced
NextCorrupt ==
  \/ StorageCorrupt
  \/ Tick
  \/ InitCall
  \/ Add
  \/ PageLoad

SpecCorrupt == Init /\ [][NextCorrupt]_vars

\* ---------------------------------------------------------------- PROPERTIES
\* the steps of a behaviour
AddStep == op' = "add" /\ used'.calls = used.calls + 1
InitStep == ~initialized /\ initialized'

\* what _load finds in storage
storedId == StorageGet(localStorage, "last_session_id")
storedTime == StorageGet(localStorage, "last_session_time")
storedTurns ==
  IF storedId # <<>> /\ StorageGetRecall(localStorage, storedId[1]) # <<>>
  THEN StorageGetRecall(localStorage, storedId[1])[1].messages ELSE <<>>
storedSummaries ==
  IF StorageGet(localStorage, "summaries") # <<>>
  THEN StorageGet(localStorage, "summaries")[1] ELSE <<>>

\* `after` is `before` with one record pushed, the oldest dropped if that passes the cap
GainedOne(before, after) ==
  /\ after # <<>>
  /\ after = IF Len(before) < MAX_SUMMARIES
             THEN Append(before, after[Len(after)])
             ELSE Append(SubSeq(before, 2, Len(before)), after[Len(after)])

RECURSIVE turnsFolded(_)
turnsFolded(sums) ==
  IF sums = <<>> THEN 0 ELSE sums[1].messageCount + turnsFolded(Tail(sums))

emitted(name) == \E i \in 1..Len(events) : events[i].name = name

\* C1: every defined block holds at most `limit` characters, at every point a
\* caller or a listener can observe it.
C1_BlockWithinLimit ==
  \A l \in DOMAIN coreBlocks : Len(coreBlocks[l].value) <= coreBlocks[l].limit

\* C2: when a call has returned and when any listener runs, the recall buffer
\* holds fewer than SUMMARIZE_THRESHOLD messages.
C2_TurnLogBound ==
  /\ Len(recall.messages) < SUMMARIZE_THRESHOLD
  /\ \A i \in 1..Len(events) : events[i].recallCount < SUMMARIZE_THRESHOLD

C2_Witness ==
  /\ op = "add"
  /\ emitted("recall:summarized") /\ emitted("recall:added")
  /\ Len(recall.messages) = SUMMARIZE_KEEP_RECENT

\* C3: the summaries never number more than MAX_SUMMARIES, in memory, in what a
\* listener sees, and in storage.
C3_ArchiveBound ==
  /\ Len(summaries) <= MAX_SUMMARIES
  /\ \A i \in 1..Len(events) : events[i].summaryCount <= MAX_SUMMARIES
  /\ Len(storedSummaries) <= MAX_SUMMARIES

C3_Witness ==
  /\ op = "summaries.add"
  /\ Len(summaries) = MAX_SUMMARIES
  /\ summaries[MAX_SUMMARIES].summary = <<"note">>
  /\ summaries[MAX_SUMMARIES - 1] = PrefilledSummary

\* C4: an add that brings the buffer to SUMMARIZE_THRESHOLD messages returns with
\* SUMMARIZE_KEEP_RECENT messages in the buffer and exactly one new summary, of
\* SUMMARIZE_THRESHOLD - SUMMARIZE_KEEP_RECENT messages.
C4_Eviction ==
  [][(AddStep /\ Len(recall.messages) + 1 = SUMMARIZE_THRESHOLD) =>
       /\ Len(recall'.messages) = SUMMARIZE_KEEP_RECENT
       /\ GainedOne(summaries, summaries')
       /\ summaries'[Len(summaries')].messageCount
            = SUMMARIZE_THRESHOLD - SUMMARIZE_KEEP_RECENT]_vars

C4_Witness ==
  /\ op = "add"
  /\ hist.appended = SUMMARIZE_THRESHOLD
  /\ Len(recall.messages) = SUMMARIZE_KEEP_RECENT
  /\ Len(summaries) = 1
  /\ summaries[1].messageCount = SUMMARIZE_THRESHOLD - SUMMARIZE_KEEP_RECENT

\* C5, as claimed: with no clear or reset and fewer than MAX_SUMMARIES summaries,
\* the turns appended are the turns in the buffer plus the turns the summaries folded.
C5_NothingDropped ==
  (initialized /\ ~hist.cleared /\ Len(summaries) < MAX_SUMMARIES) =>
     hist.appended = Len(recall.messages) + turnsFolded(summaries)

\* C5, amended: with no clear or reset and fewer than MAX_SUMMARIES summaries, the
\* turns appended are the turns in the buffer, plus the turns the summaries folded,
\* plus the turns of the sessions that init closed with 1 or 2 turns.
C5_DroppedOnlyWhenShort ==
  (initialized /\ ~hist.cleared /\ Len(summaries) < MAX_SUMMARIES) =>
     hist.appended = Len(recall.messages) + turnsFolded(summaries) + hist.shortDropped

C5_Witness ==
  /\ initialized /\ ~hist.cleared
  /\ hist.appended = SUMMARIZE_THRESHOLD
  /\ recall.messages = <<>>
  /\ Len(summaries) = 2
  /\ summaries[2].messageCount = SUMMARIZE_KEEP_RECENT

\* C6: init on a stored session last touched sessionTimeout or more ago, with n
\* stored turns, gives another session id and an empty buffer, and one new summary
\* of n messages if n > 2, none otherwise.
C6_SessionExpiry ==
  [][(InitStep /\ storedId # <<>> /\ storedTime # <<>>
        /\ now - storedTime[1] >= sessionTimeout) =>
       /\ recall'.sessionId # storedId[1]
       /\ recall'.sessionId # NoSession
       /\ recall'.messages = <<>>
       /\ IF Len(storedTurns) > 2
          THEN /\ GainedOne(storedSummaries, summaries')
               /\ summaries'[Len(summaries')].messageCount = Len(storedTurns)
          ELSE summaries' = storedSummaries]_vars

C6_Witness ==
  /\ op = "init"
  /\ now - StartTime = sessionTimeout
  /\ hist.left.sessionId = FirstSid
  /\ Len(hist.left.messages) = 5
  /\ recall.sessionId # FirstSid
  /\ recall.messages = <<>>
  /\ Len(summaries) = 1 /\ summaries[1].messageCount = 5

\* C7: init on a stored session last touched less than sessionTimeout ago keeps
\* its id, restores its stored turns in order and adds no summary.
C7_SessionResumption ==
  [][(InitStep /\ storedId # <<>> /\ storedTime # <<>>
        /\ now - storedTime[1] < sessionTimeout) =>
       /\ recall'.sessionId = storedId[1]
       /\ recall'.messages = storedTurns
       /\ summaries' = storedSummaries]_vars

C7_Witness ==
  /\ op = "init"
  /\ now - StartTime = FiveMinutes
  /\ recall.sessionId = FirstSid
  /\ recall.messages = Prefilled(5)
  /\ summaries = <<>>

\* C8: add never appends to a session last touched sessionTimeout or more ago: a
\* new session id is active when such an add returns.
C8_StaleSessionClosed ==
  [][(AddStep /\ storedTime # <<>> /\ now - storedTime[1] >= sessionTimeout) =>
       recall'.sessionId # recall.sessionId]_vars

\* C9: after reset, then adds, then a page load less than sessionTimeout after the
\* last add, init resumes the session of the reset with all those turns.
C9_ResumeAfterReset ==
  [][(InitStep /\ hist.left.afterReset /\ hist.left.messages # <<>>
        /\ now - hist.left.lastAddAt < sessionTimeout) =>
       /\ recall'.sessionId = hist.left.sessionId
       /\ recall'.messages = hist.left.messages]_vars

\* C10, as claimed: a second getContextHeader with no other call in between
\* returns the payload of the first, whatever the clock did.
HeaderAgain == op = "getContextHeader" /\ op' = "getContextHeader" /\ hist'.reads = 2

C10_HeaderIdentical ==
  [][HeaderAgain => ret' = ret]_vars

\* C10, amended: a second getContextHeader with no other call in between returns
\* the payload of the first except for its current_date and current_time lines,
\* and the very same payload if the clock shows the same date and second.
withoutClock(h) == [h EXCEPT !.current_date = 0, !.current_time = 0]

C10_HeaderIdenticalButClock ==
  [][HeaderAgain =>
       /\ withoutClock(ret') = withoutClock(ret)
       /\ (now \div 1000 = hist.readAt \div 1000 => ret' = ret)]_vars

C10_Witness ==
  /\ op = "getContextHeader"
  /\ hist.reads = 2
  /\ now > hist.readAt
  /\ ret.recall_count > 0

\* ------------------------------------------------------------ the core blocks
\* C11: getContextHeader leaves the blocks, the recall buffer, the summaries, the
\* session id and localStorage as they were, and emits no event.
C11_HeaderReadsOnly ==
  [][(op' = "getContextHeader") =>
       /\ coreBlocks' = coreBlocks
       /\ recall' = recall
       /\ summaries' = summaries
       /\ localStorage' = localStorage
       /\ events' = <<>>]_vars

C11_Witness ==
  /\ op = "getContextHeader"
  /\ Len(ret.recent) = 6
  /\ Len(ret.summaries) = 2
  /\ DefaultLabels \subseteq DOMAIN ret.memory_blocks
  /\ Len(recall.messages) > 6
  /\ summaries # <<>>

\* the calls on a block, and the block they are about
DefineStep == op' = "define" /\ used'.defines = used.defines + 1
EditStep(name) == op' = name /\ used'.edits = used.edits + 1
called == hist'.call.label
writable(l) == l \in DOMAIN coreBlocks /\ ~coreBlocks[l].readOnly

\* C12: define on a label that already exists leaves that block's value, limit,
\* read-only flag and edit count as they were.
C12_DefineKeepsExisting ==
  [][(DefineStep /\ called \in DOMAIN coreBlocks) =>
       /\ coreBlocks'[called].value = coreBlocks[called].value
       /\ coreBlocks'[called].limit = coreBlocks[called].limit
       /\ coreBlocks'[called].readOnly = coreBlocks[called].readOnly
       /\ coreBlocks'[called].editCount = coreBlocks[called].editCount]_vars

\* C13: set on a defined, writable block returns true and stores the first
\* min(len(value), limit) characters of the value given.
C13_SetTruncates ==
  [][(EditStep("set") /\ writable(called)) =>
       /\ ret' = TRUE
       /\ coreBlocks'[called].value =
            SubSeq(hist'.call.text, 1,
                   Min(Len(hist'.call.text), coreBlocks[called].limit))]_vars

C13_Witness ==
  /\ op = "set" /\ ret = TRUE
  /\ Len(hist.call.text) = 2
  /\ coreBlocks[hist.call.label].limit = 1
  /\ coreBlocks[hist.call.label].value = <<hist.call.text[1]>>
  /\ hist.call.text[1] # hist.call.text[2]

\* the example of the specification: limit 10, "1234567890" + "ABC"
ExampleBlock ==
  [label |-> "x", value |-> <<"1", "2", "3", "4", "5", "6", "7", "8", "9", "0">>,
   limit |-> 10, readOnly |-> FALSE, lastModified |-> StartTime, editCount |-> 0]
ExampleAppend ==
  CoreAppend([core |-> [l \in {"x"} |-> ExampleBlock], recall |-> FreshRecall,
              sums |-> <<>>, ls |-> EmptyStorage, ev |-> <<>>],
             "x", <<"A", "B", "C">>, StartTime)

\* C14: append on a defined, writable block with value v returns true and stores
\* the last min(limit, len(v) + len(fragment)) characters of v followed by the
\* fragment; if the fragment is no longer than limit, what is stored is an end of v
\* followed by the whole fragment; "1234567890" + "ABC" under limit 10 gives
\* "4567890ABC".
C14_AppendTrimsFront ==
  [][(EditStep("append") /\ writable(called)) =>
       LET v == coreBlocks[called].value
           fragment == hist'.call.text
           limit == coreBlocks[called].limit
           joined == v \o fragment
           n == Min(limit, Len(joined))
           stored == coreBlocks'[called].value
       IN /\ ret' = TRUE
          /\ stored = SubSeq(joined, Len(joined) - n + 1, Len(joined))
          /\ Len(fragment) <= limit =>
                \E d \in 0..Len(v) : stored = SubSeq(v, d + 1, Len(v)) \o fragment
          /\ ExampleAppend.m.core["x"].value
                = <<"4", "5", "6", "7", "8", "9", "0", "A", "B", "C">>]_vars

C14_Witness ==
  /\ op = "append" /\ ret = TRUE
  /\ hist.call.was = <<<<"a", "a">>>>
  /\ hist.call.text = <<"b">>
  /\ coreBlocks[hist.call.label].limit = 2
  /\ coreBlocks[hist.call.label].value = <<"a", "b">>

\* sub occurs in s, character for character
isSubstring(sub, s) ==
  \E i \in 0..(Len(s) - Len(sub)) : SubSeq(s, i + 1, i + Len(sub)) = sub

\* C15: replace with an old text that does not occur in the block's value returns
\* false, leaves every block as it was (value, edit count, modification time),
\* emits no event and saves nothing.
C15_ReplaceNoMatch ==
  [][(EditStep("replace") /\ called \in DOMAIN coreBlocks
        /\ ~isSubstring(hist'.call.text, coreBlocks[called].value)) =>
       /\ ret' = FALSE
       /\ coreBlocks' = coreBlocks
       /\ events' = <<>>
       /\ localStorage' = localStorage]_vars

C15_Witness ==
  /\ op = "replace" /\ ret = FALSE
  /\ hist.call.was = <<<<"a", "a">>>>
  /\ hist.call.text = <<"b">>
  /\ hist.call.newText = <<>>
  /\ ~coreBlocks[hist.call.label].readOnly
  /\ coreBlocks[hist.call.label].limit = DEFAULT_BLOCK_LIMIT
  /\ coreBlocks[hist.call.label].editCount = 0

\* C16: replace returns false and leaves the block's value and edit count as they
\* were if putting the new text in the place of the first occurrence of the old
\* text gives a value longer than limit.
C16_ReplaceRefusesOverLimit ==
  [][(EditStep("replace") /\ writable(called)
        /\ isSubstring(hist'.call.text, coreBlocks[called].value)
        /\ Len(coreBlocks[called].value) - Len(hist'.call.text)
             + Len(hist'.call.newText) > coreBlocks[called].limit) =>
       /\ ret' = FALSE
       /\ coreBlocks'[called].value = coreBlocks[called].value
       /\ coreBlocks'[called].editCount = coreBlocks[called].editCount]_vars

\* C17: set, append and replace on an undefined label or on a read-only block
\* return false, leave every block as it was, create no block and emit no event.
C17_RefusedWrites ==
  [][((EditStep("set") \/ EditStep("append") \/ EditStep("replace"))
        /\ ~writable(called)) =>
       /\ ret' = FALSE
       /\ coreBlocks' = coreBlocks
       /\ events' = <<>>]_vars

C17_Witness ==
  /\ op = "set" /\ ret = FALSE
  /\ hist.call.label \in DOMAIN coreBlocks
  /\ coreBlocks[hist.call.label].readOnly
  /\ hist.call.was = <<<<"a">>>>
  /\ hist.call.text = <<"b">>
  /\ coreBlocks[hist.call.label].value = <<"a">>

\* C18: a set, append or replace that returns true adds exactly 1 to the edit
\* count of its block and leaves every other block as it was; the edit count of
\* every block is the number of such calls on it since it was defined.
C18_EditCount ==
  [][/\ initialized' =>
          \A l \in DOMAIN coreBlocks' : coreBlocks'[l].editCount = hist'.mutations[l]
     /\ ((EditStep("set") \/ EditStep("append") \/ EditStep("replace")) /\ ret' = TRUE) =>
          /\ DOMAIN coreBlocks' = DOMAIN coreBlocks
          /\ coreBlocks'[called].editCount = coreBlocks[called].editCount + 1
          /\ \A l \in DOMAIN coreBlocks \ {called} : coreBlocks'[l] = coreBlocks[l]]_vars

C18_Witness ==
  /\ op \in {"set", "append", "replace"} /\ ret = TRUE
  /\ hist.call.label = "x"
  /\ coreBlocks["x"].editCount = 1
  /\ hist.mutations["x"] = 1
  /\ coreBlocks["user_info"].editCount = 1
  /\ coreBlocks["persona"].editCount = 0

\* ------------------------------------------------------------ ids and archive
\* C19, as claimed: of two turns appended in one session, the later one is given
\* the greater id.
C19_IdsIncrease ==
  [][(AddStep /\ hist.lastAdd.sessionId = recall.sessionId /\ hist.lastAdd.id >= 0) =>
       ret'.id > hist.lastAdd.id]_vars

\* C19, amended: the ids of the turns in the recall buffer increase strictly in
\* the order of the buffer, and the turn an add returns is the last of the buffer
\* and has the greatest id; compaction gives the kept turns new ids from 0 and
\* clear makes the ids start at 0 again.
C19_LiveIdsIncrease ==
  /\ \A i, j \in 1..Len(recall.messages) :
        i < j => recall.messages[i].id < recall.messages[j].id
  /\ op = "add" =>
        /\ ret = recall.messages[Len(recall.messages)]
        /\ \A i \in 1..(Len(recall.messages) - 1) : recall.messages[i].id < ret.id

C19_Witness ==
  /\ op = "add"
  /\ hist.appended = SUMMARIZE_THRESHOLD + 1
  /\ Len(summaries) = 1
  /\ Len(recall.messages) = SUMMARIZE_KEEP_RECENT + 1
  /\ ret.id = SUMMARIZE_KEEP_RECENT
  /\ hist.lastAdd.sessionId = FirstSid

\* the summaries a step starts from: those in memory, or at init those in storage
archive == IF initialized THEN summaries ELSE storedSummaries
\* the steps that insert a record: Summaries.add, an add that brings the buffer to
\* the threshold, and an init that closes a stored session of more than 2 turns
Inserts ==
  \/ op' = "summaries.add" /\ used'.calls = used.calls + 1
  \/ AddStep /\ Len(recall.messages) + 1 >= SUMMARIZE_THRESHOLD
  \/ /\ InitStep /\ storedId # <<>> /\ storedTime # <<>>
     /\ now - storedTime[1] >= sessionTimeout
     /\ Len(storedTurns) > 2
\* the record such a step inserts
inserted(rec) ==
  /\ rec.timestamp = now
  /\ CASE op' = "summaries.add" ->
             /\ rec.summary = <<"note">> /\ rec.messageCount = 0
             /\ rec.sessionId = recall.sessionId
        [] op' = "add" ->
             /\ rec.messageCount = SUMMARIZE_THRESHOLD - SUMMARIZE_KEEP_RECENT
             /\ rec.sessionId = recall.sessionId
        [] op' = "init" ->
             /\ rec.messageCount = Len(storedTurns)
             /\ rec.sessionId = storedId[1]
        [] OTHER -> FALSE

\* C20: a step that inserts a record when there are MAX_SUMMARIES records leaves
\* MAX_SUMMARIES records: the old ones but the oldest, in their order, then the
\* record inserted, which is what latest() returns.
C20_ArchiveRing ==
  [][(Inserts /\ Len(archive) = MAX_SUMMARIES) =>
       /\ Len(SummariesAll(Mem)') = MAX_SUMMARIES
       /\ SubSeq(SummariesAll(Mem)', 1, MAX_SUMMARIES - 1) = Tail(archive)
       /\ SummariesLatest(Mem)' = <<summaries'[MAX_SUMMARIES]>>
       /\ inserted(summaries'[MAX_SUMMARIES])]_vars

C20_Witness ==
  /\ op = "summaries.add"
  /\ Len(summaries) = MAX_SUMMARIES
  /\ SummariesLatest(Mem)[1].summary = <<"note">>
  /\ summaries[1].timestamp = PrefilledTime(2, MAX_SUMMARIES)
  /\ summaries[MAX_SUMMARIES - 1].timestamp = PrefilledTime(MAX_SUMMARIES, MAX_SUMMARIES)

\* C21: recent(n) returns the last min(n, count()) turns of the log in append
\* order, for every n >= 0, and leaves the log as it was
RecentStep == op' = "recent" /\ UNCHANGED <<now, used>>

ClearStep == op' = "clear" /\ used'.calls = used.calls + 1

C22_ClearOnlyLog ==
  [][ClearStep =>
       /\ recall'.messages = <<>>
       /\ recall'.sessionId = recall.sessionId
       /\ summaries' = summaries
       /\ coreBlocks' = coreBlocks
       /\ StorageGet(localStorage', "summaries") = StorageGet(localStorage, "summaries")
       /\ StorageGet(localStorage', "core_blocks") = StorageGet(localStorage, "core_blocks")
       /\ StorageGet(localStorage', "last_session_id") =
             StorageGet(localStorage, "last_session_id")]_vars

\* a clear of a session that had turns, with a full archive
C22_Witness ==
  /\ op = "clear"
  /\ recall.messages = <<>>
  /\ hist.lastAdd.sessionId = recall.sessionId
  /\ hist.lastAdd.id >= 4
  /\ Len(summaries) = MAX_SUMMARIES
  /\ StorageGetRecall(localStorage, recall.sessionId) # <<>>
  /\ StorageGetRecall(localStorage, recall.sessionId)[1].messages = <<>>

\* C26: init on an initialized memory changes nothing: not the blocks, the log, the
\* summaries, the session id, _config or what is stored
InitAgainStep == initialized /\ op' = "init" /\ UNCHANGED <<now, used>>

C26_InitOnce ==
  [][InitAgainStep =>
       /\ UNCHANGED <<initialized, config, coreBlocks, recall, summaries,
                      localStorage, nextSid>>
       /\ events' = <<>>]_vars

\* init called again on a session with turns, more than the session timeout after
\* the page's init
C26_Witness ==
  /\ op = "init"
  /\ initialized
  /\ Len(recall.messages) > 0
  /\ storedTime # <<>>
  /\ now - storedTime[1] >= sessionTimeout

\* C28: after reset() the blocks are the four defaults, each with its default
\* value and limit, writable and with editCount 0; the log and the summaries are
\* empty; the session id is not the one before the reset
ResetStep == op' = "reset" /\ used'.calls = used.calls + 1

isDefault(blk, l) ==
  /\ blk.label = l
  /\ blk.value = defaultValue(l)
  /\ blk.limit = defaultLimit(l)
  /\ blk.readOnly = FALSE
  /\ blk.editCount = 0

C28_ResetBaseline ==
  [][ResetStep =>
       /\ DOMAIN coreBlocks' = DefaultLabels
       /\ \A l \in DefaultLabels : isDefault(coreBlocks'[l], l)
       /\ recall'.messages = <<>>
       /\ summaries' = <<>>
       /\ recall'.sessionId # recall.sessionId
       /\ recall'.sessionId # NoSession]_vars

\* a reset of a session that had 79 turns, a full archive and an edited block
C28_Witness ==
  /\ op = "reset"
  /\ hist.lastAdd.id >= 78
  /\ hist.left.afterReset = FALSE
  /\ hist.appended > MAX_SUMMARIES * (SUMMARIZE_THRESHOLD - SUMMARIZE_KEEP_RECENT)
  /\ hist.lastAdd.sessionId # recall.sessionId
  /\ coreBlocks["user_info"].value = <<>>
  /\ summaries = <<>>
  /\ recall.messages = <<>>

\* the steps of processUserMessage, the message given and the rules it matches
ProcessStep == op' = "processUserMessage" /\ used'.learns = used.learns + 1
given == [i \in 1..Len(hist'.call.text) |-> toLowerCase(hist'.call.text[i])]
firstRule(lower) ==
  IF matchAt(lower, NameTrigger) > 0 THEN "name"
  ELSE IF matchAt(lower, RememberTrigger) > 0 THEN "fact"
  ELSE IF matchAt(lower, PrefTrigger) > 0 THEN "preference"
  ELSE IF matchAt(lower, DeadlineTrigger) > 0 THEN "deadline"
  ELSE "none"
blockWrites(ev) ==
  writes(ev, "core:changed") + writes(ev, "core:appended") + writes(ev, "core:replaced")

\* C23: processUserMessage applies the first rule that matches, in the order name,
\* remember, preference, deadline, and no other: it writes at most once to a
\* block and returns the fact of that first rule, or nothing if no rule matches
C23_FirstMatchWins ==
  [][ProcessStep =>
       /\ firstRule(given) = "none" => ret' = <<>>
       /\ firstRule(given) # "none" => ret' # <<>> /\ ret'[1].type = firstRule(given)
       /\ blockWrites(events') <= 1]_vars

\* C24: when the deadline rule matches and project_facts holds no 'Deadline: ...'
\* line, the value and the editCount of project_facts stay as they were
C24_DeadlineNoLine ==
  [][(/\ ProcessStep
      /\ matchAt(given, DeadlineTrigger) > 0
      /\ "project_facts" \in DOMAIN coreBlocks
      /\ deadlineLine(coreBlocks["project_facts"].value) = <<>>) =>
       /\ coreBlocks'["project_facts"].value = coreBlocks["project_facts"].value
       /\ coreBlocks'["project_facts"].editCount =
             coreBlocks["project_facts"].editCount]_vars

\* C25: when processUserMessage returns a fact, the block of its rule was written
\* by the call and holds the fact's value
target(fact) == IF fact.type = "deadline" THEN "project_facts" ELSE "user_info"

C25_ReportedIsStored ==
  [][(ProcessStep /\ ret' # <<>>) =>
       /\ target(ret'[1]) \in DOMAIN coreBlocks
       /\ coreBlocks'[target(ret'[1])].editCount >
             coreBlocks[target(ret'[1])].editCount
       /\ isSubstring(ret'[1].value, coreBlocks'[target(ret'[1])].value)
       /\ emitted("learning:updated")']_vars

\* C27: init keeps the stored value, limit and editCount of every default label
\* that storage holds a block for
storedBlocks == StorageGet(localStorage, "core_blocks")
restored(l) == storedBlocks # <<>> /\ l \in DOMAIN storedBlocks[1]

getsRole(blk) == ~blk.readOnly /\ indexOf(blk.value, RoleText) = -1
withRole(blk, t) ==
  [blk EXCEPT !.value = @ \o RoleText, !.editCount = @ + 1, !.lastModified = t]

Working(m) == [m EXCEPT !.ls.denied = {}]
sameAs(m) ==
  /\ coreBlocks' = m.core
  /\ recall' = m.recall
  /\ summaries' = m.sums
  /\ monologue' = m.log
  /\ events' = m.ev

C29_FailuresChangeNothing ==
  [][/\ AddStep =>
          \E in \in AddInputs :
             \E r \in {RecallAdd(Working(Mem), in.role, in.content, config.page, now)} :
                ret' = r.ret /\ sameAs(r.m)
     /\ ClearStep => sameAs(RecallClear(Working(Mem), now))
     /\ (op' = "summaries.add" /\ used'.calls = used.calls + 1) =>
          sameAs(SummariesAdd(Working(Mem), "note", config.page, now))
     /\ ResetStep => sameAs(reset(Working(Mem), now, nextSid))
     /\ InitStep => sameAs(init(Working(Mem), PageName, TRUE, now, nextSid))
     /\ DefineStep => sameAs(CoreDefine(Working(Mem), called, <<>>, 0, TRUE, now))
     /\ EditStep("set") =>
          \E r \in {CoreSet(Working(Mem), called, hist'.call.text, now)} :
             ret' = r.ret /\ sameAs(r.m)
     /\ EditStep("append") =>
          \E r \in {CoreAppend(Working(Mem), called, hist'.call.text, now)} :
             ret' = r.ret /\ sameAs(r.m)
     /\ EditStep("replace") =>
          \E r \in {CoreReplace(Working(Mem), called, hist'.call.text,
                                hist'.call.newText, now)} :
             ret' = r.ret /\ sameAs(r.m)]_vars

\* an add to a resumed session of 5 turns while localStorage refuses every write:
\* the log has the new turn, storage still has the 5
C29_Witness ==
  /\ op = "add"
  /\ localStorage.denied = Keys
  /\ recall.sessionId = FirstSid
  /\ Len(recall.messages) = 6
  /\ Len(localStorage.recall[FirstSid].messages) = 5

\* C30: an init that finds the stored snapshot of a store unparseable or of the
\* wrong shape completes, starts that store from its default and loads the other
\* stores as stored: it leaves in memory what it leaves when the keys of the
\* damaged snapshots are absent
InitAttempt == ~initialized /\ op' = "init" /\ UNCHANGED <<now, used>>
damaged(ls) == {k \in StoreKeys : ls.shape[k] # "json"}
withoutDamaged(ls) ==
  [ls EXCEPT !.shape = [k \in Keys |-> "json"],
             !.core_blocks = IF "core_blocks" \in damaged(ls) THEN <<>> ELSE @,
             !.summaries = IF "summaries" \in damaged(ls) THEN <<>> ELSE @,
             !.recall = IF "recall" \in damaged(ls) THEN NoBlocks ELSE @]
C30_DamagedFallsBack ==
  [][(InitAttempt /\ damaged(localStorage) # {}) =>
       /\ initialized'
       /\ \E m \in {init([Mem EXCEPT !.ls = withoutDamaged(localStorage)],
                          PageName, TRUE, now, nextSid)} :
             /\ coreBlocks' = m.core
             /\ summaries' = m.sums
             /\ recall' = m.recall]_vars

\* C31: every step that inserts a record into the summaries (Summaries.add, an add
\* that compacts, an init that closes an expired session) emits 'summaries:added'
\* once
C31_InsertionNotified ==
  [][Inserts => writes(events', "summaries:added") = 1]_vars

\* C32: whoever runs during or after an add that compacts (a listener of one of
\* its events, the caller on return) finds either all the turns in the log and
\* the summaries as they were, or the kept turns in the log and the new record in
\* the summaries
Compacts == AddStep /\ Len(recall.messages) + 1 >= SUMMARIZE_THRESHOLD
beforeCompaction(log, sums) ==
  /\ sums = summaries
  /\ Len(log) = Len(recall.messages) + 1
  /\ SubSeq(log, 1, Len(recall.messages)) = recall.messages
afterCompaction(log, sums) ==
  /\ Len(log) = SUMMARIZE_KEEP_RECENT
  /\ \A i \in 1..SUMMARIZE_KEEP_RECENT - 1 :
        LET old == recall.messages[Len(recall.messages) + 1 - SUMMARIZE_KEEP_RECENT + i]
        IN log[i].role = old.role /\ log[i].content = old.content
  /\ log[SUMMARIZE_KEEP_RECENT] = ret'
  /\ GainedOne(summaries, sums)
  /\ inserted(sums[Len(sums)])
C32_CompactionAtomic ==
  [][Compacts =>
       /\ afterCompaction(recall'.messages, summaries')
       /\ \A i \in 1..Len(events') :
             \/ beforeCompaction(events'[i].messages, events'[i].summaries)
             \/ afterCompaction(events'[i].messages, events'[i].summaries)]_vars

\* a compaction with MAX_SUMMARIES records there: the listener of
\* 'recall:summarized' found the kept turns and the record that add left
C32_Witness ==
  /\ op = "add"
  /\ Len(events) = 2
  /\ events[1].name = "recall:summarized"
  /\ events[1].messages = recall.messages
  /\ events[1].summaries = summaries
  /\ Len(summaries) = MAX_SUMMARIES
  /\ Len(recall.messages) = SUMMARIZE_KEEP_RECENT

\* C33: when add returns, the stored last_session_time is the time of the add; so
\* an init that finds a stored session and does not resume it comes sessionTimeout
\* or more after the last add to that session
C33_AddTouches ==
  [][/\ AddStep => StorageGet(localStorage', "last_session_time") = <<now>>
     /\ (InitStep /\ storedId # <<>> /\ hist.lastAdd.sessionId = storedId[1]
            /\ recall'.sessionId # storedId[1]) =>
          now - hist.lastAddAt >= sessionTimeout]_vars

\* a first visit, init at StartTime, a turn added five minutes later
C33_Witness ==
  /\ op = "add"
  /\ hist.left.sessionId = NoSession
  /\ recall.startedAt = StartTime
  /\ now = StartTime + FiveMinutes
  /\ storedTime = <<now>>
  /\ hist.lastAddAt = now

\* C34: an add that brings the buffer to L >= SUMMARIZE_THRESHOLD turns leaves the
\* last SUMMARIZE_KEEP_RECENT of them in the buffer, in their order, each with its
\* role and content, and the record it inserts is the summary of the first
\* L - SUMMARIZE_KEEP_RECENT
C34_KeepsRecent ==
  [][Compacts =>
       LET buffer == Append(recall.messages, ret')
           L == Len(buffer)
           folded == SubSeq(buffer, 1, L - SUMMARIZE_KEEP_RECENT)
           rec == summaries'[Len(summaries')]
       IN /\ Len(recall'.messages) = SUMMARIZE_KEEP_RECENT
          /\ \A i \in 1..SUMMARIZE_KEEP_RECENT :
                /\ recall'.messages[i].role = buffer[L - SUMMARIZE_KEEP_RECENT + i].role
                /\ recall'.messages[i].content =
                      buffer[L - SUMMARIZE_KEEP_RECENT + i].content
          /\ rec.messageCount = L - SUMMARIZE_KEEP_RECENT
          /\ rec.summary = buildSummary(folded)
          /\ rec.keyTopics = extractTopics(folded)]_vars

\* the 80th turn added to the stored session of 79: turns 57 to 79 and the new one
\* are kept, 56 are folded
C34_Witness ==
  /\ op = "add"
  /\ hist.left.messages = Prefilled(SUMMARIZE_THRESHOLD - 1)
  /\ Len(recall.messages) = SUMMARIZE_KEEP_RECENT
  /\ \A i \in 1..SUMMARIZE_KEEP_RECENT - 1 :
        recall.messages[i].content =
          Prefilled(SUMMARIZE_THRESHOLD - 1)[SUMMARIZE_THRESHOLD - SUMMARIZE_KEEP_RECENT + i].content
  /\ recall.messages[SUMMARIZE_KEEP_RECENT].content = ret.content
  /\ summaries[Len(summaries)].messageCount = SUMMARIZE_THRESHOLD - SUMMARIZE_KEEP_RECENT

\* C35: whenever the caller or a listener looks, the turn at index i of the buffer
\* (from 0) has id i, and the turn add returns is the last one of the buffer, with
\* the id of that position
positional(log) == \A i \in 1..Len(log) : log[i].id = i - 1
C35_IdIsPosition ==
  /\ positional(recall.messages)
  /\ \A i \in 1..Len(events) : positional(events[i].messages)
  /\ op = "add" =>
        /\ ret = recall.messages[Len(recall.messages)]
        /\ ret.id = Len(recall.messages) - 1

\* the add that compacts returns the turn at the last kept position
C35_Witness ==
  /\ op = "add"
  /\ emitted("recall:summarized")
  /\ Len(recall.messages) = SUMMARIZE_KEEP_RECENT
  /\ ret.id = SUMMARIZE_KEEP_RECENT - 1
  /\ recall.messages[1].id = 0

\* C36: once init has run there is a session id; add, clear, define, set, append,
\* replace, Summaries.add, processUserMessage and getContextHeader leave it as it
\* is, as does every step but a reset and a page load; reset installs a new one
ManualStep == op' = "summaries.add" /\ used'.calls = used.calls + 1
HeaderStep == op' = "getContextHeader" /\ hist'.reads > 0 /\ UNCHANGED <<now, used>>
C36_SessionIdKept ==
  /\ [](initialized => recall.sessionId # NoSession)
  /\ [][/\ (\/ AddStep \/ ClearStep \/ DefineStep \/ EditStep("set")
            \/ EditStep("append") \/ EditStep("replace") \/ ManualStep
            \/ ProcessStep \/ HeaderStep
            \/ (initialized /\ initialized' /\ ~ResetStep)) =>
             recall'.sessionId = recall.sessionId
        /\ ResetStep => recall'.sessionId \notin {recall.sessionId, NoSession}]_vars

\* an add that compacts the session restored from storage: the id is the stored one
C36_Witness ==
  /\ op = "add"
  /\ emitted("recall:summarized")
  /\ hist.left.sessionId = FirstSid
  /\ recall.sessionId = FirstSid
  /\ summaries[Len(summaries)].sessionId = FirstSid

\* C37: when localStorage never fails, after every call the stored blocks are the
\* blocks in memory, the stored summaries are the summaries in memory and the
\* stored turns of the active session are the turns of the buffer (an absent key
\* counting as empty); and a page load that comes less than sessionTimeout after
\* the session was last touched restores the three of them
activeTurns ==
  IF StorageGetRecall(localStorage, recall.sessionId) # <<>>
  THEN StorageGetRecall(localStorage, recall.sessionId)[1].messages ELSE <<>>
mirrored ==
  /\ storedBlocks = <<coreBlocks>>
  /\ storedSummaries = summaries
  /\ activeTurns = recall.messages
unexpired == storedTime # <<>> /\ now - storedTime[1] < sessionTimeout
C37_StorageMirrors ==
  /\ [](initialized => mirrored)
  /\ [][(InitStep /\ unexpired) =>
          /\ <<coreBlocks'>> = storedBlocks
          /\ summaries' = storedSummaries
          /\ recall'.messages = hist.left.messages]_vars

====
